---- MODULE Spec2Model ----
(***************************************************************************)
(* Workflow execution engine of the dataset crawler:                       *)
(*   AdvancedCrawler  (src/app/advanced_crawler.py)                        *)
(*   PaginatedCrawler (src/app/core/crawler.py)                            *)
(*                                                                         *)
(* The automation driver (browser page) is the environment: every driver  *)
(* call is a step whose outcome (a value, nothing found, or an exception)  *)
(* is chosen nondeterministically.                                         *)
(***************************************************************************)
EXTENDS Integers, Sequences, FiniteSets, TLC

\* ------------------------------------------------------------------ bounds
\* Largest number of elements one query_selector_all on the items selector returns.
MaxItems == 2
\* Number of listing pages the site has: on the last one no pagination control is left.
MaxSitePages == 2
\* Largest number of driver calls of one run that do not take their nominal course
\* (raise, or find no element).
MaxFaults == 2
\* Largest number of candidates one query on the pagination selector returns.
MaxCandidates == 2

\* The largest number of elements of a listing page that is looked at.
MaxNodes == 3

\* The largest number of calls made on one WorkflowConfigurator.
MaxCalls == 3

\* ------------------------------------------------------------- basic values
\* Python's None for a field value.
NULL == "None"

\* An optional value: <<>> is None, <<v>> is v.
None == <<>>
Some(v) == <<v>>
IsNone(o) == o = <<>>

\* TruthyInt as an "is not None" test: 0 counts as a bound.
TruthyIntNotNone(o) == o # <<>>

\* Python truthiness of an Optional[int]: None and 0 are falsy.
TruthyInt(o) == o # <<>> /\ o[1] # 0

\* Dictionaries are functions; the empty dict is the empty function.
EmptyDict == [n \in {} |-> NULL]

\* dict.update: the entries of b replace or extend those of a.
DictUpdate(a, b) ==
  [n \in (DOMAIN a) \cup (DOMAIN b) |-> IF n \in DOMAIN b THEN b[n] ELSE a[n]]

\* ------------------------------------------------------------------- URLs
\* A URL as urlparse sees it: netloc and path (a sequence of characters).
ListURL == [netloc |-> "x.com", path |-> <<"/", "l">>]
List2URL == [netloc |-> "x.com", path |-> <<"/", "l", "/", "2">>]
DetailURL == [netloc |-> "x.com", path |-> <<"/", "l", "/", "d", "/", "7">>]

\* The URL of a page before its first navigation (about:blank).
BlankURL == [netloc |-> "", path |-> <<>>]

\* The URL of listing page n of the site.
PageURL(n) == IF n = 1 THEN ListURL ELSE List2URL

\* str.rstrip('/')
RECURSIVE RStripSlash(_)
RStripSlash(p) ==
  IF p # <<>> /\ p[Len(p)] = "/" THEN RStripSlash(SubSeq(p, 1, Len(p) - 1)) ELSE p

\* len(path.split('/')): one more than the number of '/' in the path.
SegmentCount(p) == 1 + Cardinality({k \in 1..Len(p) : p[k] = "/"})

\* str.startswith
StartsWith(s, prefix) ==
  Len(prefix) <= Len(s) /\ SubSeq(s, 1, Len(prefix)) = prefix

\* IsFieldForCurrentPage with the segment test of line 772 made by >= in place of >:
\* a field path of as many segments as the current path is taken as more specific.
IsFieldForCurrentPageStrict(field_page_url, current_url) ==
  LET field_path == RStripSlash(field_page_url.path)
      current_path == RStripSlash(current_url.path)
  IN IF field_page_url.netloc # current_url.netloc THEN FALSE
     ELSE IF field_path = current_path THEN TRUE
     ELSE IF SegmentCount(field_path) >= SegmentCount(current_path) THEN FALSE
     ELSE StartsWith(current_path, field_path)

\* AdvancedCrawler._is_field_for_current_page
IsFieldForCurrentPage(field_page_url, current_url) ==
  LET field_path == RStripSlash(field_page_url.path)
      current_path == RStripSlash(current_url.path)
  IN IF field_page_url.netloc # current_url.netloc THEN FALSE
     ELSE IF field_path = current_path THEN TRUE
     ELSE IF SegmentCount(field_path) > SegmentCount(current_path) THEN FALSE
     ELSE StartsWith(current_path, field_path)

\* ---------------------------------------------------------------- strings
\* A string is a sequence of characters.
UpperAlphabet == <<"A", "B", "C", "D", "E", "F", "G", "H", "I", "J", "K", "L", "M", "N", "O", "P", "Q", "R", "S", "T", "U", "V", "W", "X", "Y", "Z">>
LowerAlphabet == <<"a", "b", "c", "d", "e", "f", "g", "h", "i", "j", "k", "l", "m", "n", "o", "p", "q", "r", "s", "t", "u", "v", "w", "x", "y", "z">>

\* str.lower, one character
LowerChar(c) ==
  IF \E k \in 1..Len(UpperAlphabet) : UpperAlphabet[k] = c
  THEN LowerAlphabet[CHOOSE k \in 1..Len(UpperAlphabet) : UpperAlphabet[k] = c]
  ELSE c

\* str.lower
Lower(s) == [k \in 1..Len(s) |-> LowerChar(s[k])]

\* str.strip (blanks)
RECURSIVE Strip(_)
Strip(s) ==
  IF s # <<>> /\ s[1] = " " THEN Strip(Tail(s))
  ELSE IF s # <<>> /\ s[Len(s)] = " " THEN Strip(SubSeq(s, 1, Len(s) - 1))
  ELSE s

\* sub in s
Contains(sub, s) ==
  \E k \in 0..(Len(s) - Len(sub)) : SubSeq(s, k + 1, k + Len(sub)) = sub

\* ------------------------------------------------------------ clickability
\* disabled_classes of _is_element_clickable
DisabledClasses ==
  { <<"d", "i", "s", "a", "b", "l", "e", "d">>,
    <<"b", "t", "n", "-", "d", "i", "s", "a", "b", "l", "e", "d">>,
    <<"i", "n", "a", "c", "t", "i", "v", "e">>,
    <<"n", "o", "t", "-", "c", "l", "i", "c", "k", "a", "b", "l", "e">>,
    <<"b", "t", "n", "-", "i", "n", "a", "c", "t", "i", "v", "e">> }

\* What the driver reports of an element: the attributes (None when absent), the
\* visibility, the computed pointer-events, the computed opacity in hundredths
\* (None when float() cannot parse it), and the driver call that raises, if one
\* does (0: none; 1: disabled, 2: aria-disabled, 3: class, 4: is_visible,
\* 5: pointer-events, 6: opacity).
Element(disabled, aria_disabled, class_name, visible, pointer_events, opacity, raises) ==
  [disabled |-> disabled, aria_disabled |-> aria_disabled, class_name |-> class_name,
   visible |-> visible, pointer_events |-> pointer_events, opacity |-> opacity,
   raises |-> raises]

PlainElement == Element(None, None, Some(<<"b", "t", "n">>), TRUE, "auto", Some(100), 0)

\* The element states the driver may report.
ElementStates ==
  { PlainElement,
    Element(None, None, None, TRUE, "auto", Some(10), 0),
    Element(Some(""), None, None, TRUE, "auto", Some(100), 0),
    Element(None, Some("true"), None, TRUE, "auto", Some(100), 0),
    Element(None, Some("false"), Some(<<"b", "t", "n", " ", "B", "T", "N", "-", "D", "i", "s", "a", "b", "l", "e", "d">>), TRUE, "auto", Some(100), 0),
    Element(None, None, None, FALSE, "auto", Some(100), 0),
    Element(None, None, None, TRUE, "none", Some(100), 0),
    Element(None, None, None, TRUE, "auto", Some(5), 0),
    Element(None, None, None, TRUE, "auto", None, 0),
    Element(None, None, None, TRUE, "auto", Some(100), 4) }

\* IsElementClickable with an except branch that answers True: an error of a driver
\* call or of float() lets the element pass.
IsElementClickableFailOpen(el) ==
  LET class_name == IF IsNone(el.class_name) THEN <<>> ELSE el.class_name[1]
  IN IF el.raises = 1 THEN TRUE
     ELSE IF ~IsNone(el.disabled) THEN FALSE
     ELSE IF el.raises = 2 THEN TRUE
     ELSE IF el.aria_disabled = Some("true") THEN FALSE
     ELSE IF el.raises = 3 THEN TRUE
     ELSE IF \E c \in DisabledClasses : Contains(c, Lower(class_name)) THEN FALSE
     ELSE IF el.raises = 4 THEN TRUE
     ELSE IF ~el.visible THEN FALSE
     ELSE IF el.raises \in {5, 6} THEN TRUE
     ELSE IF el.pointer_events = "none" THEN FALSE
     ELSE IF IsNone(el.opacity) THEN TRUE
     ELSE IF el.opacity[1] < 10 THEN FALSE
     ELSE TRUE

\* IsElementClickable with the class test of line 648 made on class_name as it is
\* (no lower()).
IsElementClickableCaseSensitive(el) ==
  LET class_name == IF IsNone(el.class_name) THEN <<>> ELSE el.class_name[1]
  IN IF el.raises = 1 THEN FALSE
     ELSE IF ~IsNone(el.disabled) THEN FALSE
     ELSE IF el.raises = 2 THEN FALSE
     ELSE IF el.aria_disabled = Some("true") THEN FALSE
     ELSE IF el.raises = 3 THEN FALSE
     ELSE IF \E c \in DisabledClasses : Contains(c, class_name) THEN FALSE
     ELSE IF el.raises = 4 THEN FALSE
     ELSE IF ~el.visible THEN FALSE
     ELSE IF el.raises \in {5, 6} THEN FALSE
     ELSE IF el.pointer_events = "none" THEN FALSE
     ELSE IF IsNone(el.opacity) THEN FALSE
     ELSE IF el.opacity[1] < 10 THEN FALSE
     ELSE TRUE

\* AdvancedCrawler._is_element_clickable and PaginatedCrawler._is_element_clickable
\* (the two bodies are the same): the checks in the order of the code, the first
\* raising call or triggering check ends the evaluation with False.
IsElementClickable(el) ==
  LET class_name == IF IsNone(el.class_name) THEN <<>> ELSE el.class_name[1]
  IN IF el.raises = 1 THEN FALSE
     ELSE IF ~IsNone(el.disabled) THEN FALSE
     ELSE IF el.raises = 2 THEN FALSE
     ELSE IF el.aria_disabled = Some("true") THEN FALSE
     ELSE IF el.raises = 3 THEN FALSE
     ELSE IF \E c \in DisabledClasses : Contains(c, Lower(class_name)) THEN FALSE
     ELSE IF el.raises = 4 THEN FALSE
     ELSE IF ~el.visible THEN FALSE
     ELSE IF el.raises \in {5, 6} THEN FALSE
     ELSE IF el.pointer_events = "none" THEN FALSE
     ELSE IF IsNone(el.opacity) THEN FALSE
     ELSE IF el.opacity[1] < 10 THEN FALSE
     ELSE TRUE

\* The element states the evaluator accepts, and those it rejects.
ClickableStates == {el \in ElementStates : IsElementClickable(el)}
RejectedStates == {el \in ElementStates : ~IsElementClickable(el)}

\* The verdicts the evaluator gives over the element states.
ClickVerdicts == {IsElementClickable(el) : el \in ElementStates}

\* ---------------------------------------------------------- configuration
\* ElementSelection (the fields the engine reads).
Selection(name, selector, element_type, page_url, original_content) ==
  [name |-> name, selector |-> selector, element_type |-> element_type,
   page_url |-> page_url, original_content |-> original_content]

ItemsSel == Selection("items", ".row", "items_container", None, None)
TitleSel == Selection("title", ".t", "data_field", None, None)
PriceSel == Selection("price", ".p", "data_field", None, None)
DetailSel == Selection("detail", ".d", "data_field", Some(DetailURL), None)

\* WorkflowStep
Step(step_id, action, target_selector, extract_fields, wait_condition) ==
  [step_id |-> step_id, action |-> action, target_selector |-> target_selector,
   extract_fields |-> extract_fields, wait_condition |-> wait_condition]

ClickStep == Step("s_click", "click", ".link", <<"detail", "ghost">>, "networkidle")
ExtractStepCfg == Step("s_extract", "extract", "", <<"title">>, "networkidle")
NewTabStep == Step("s_tab", "open_new_tab", "a", <<"detail">>, "networkidle")
HoverStep == Step("s_hover", "hover", ".h", <<"title">>, "networkidle")
ExtractAgainStep == Step("s_again", "extract", "", <<"title">>, "networkidle")

\* Pagination selections: with the authored text, without it, and with an empty selector.
PagSel == Selection("next", ".next", "pagination", None, Some(<<"N", "e", "x", "t">>))
PagSelNoContent == Selection("next", ".next", "pagination", None, None)
PagSelEmpty == Selection("next", "", "pagination", None, None)

\* CrawlerConfiguration (src/app/models.py)
CrawlerConfiguration(selections, workflows, pagination_config, max_pages) ==
  [base_url |-> ListURL, selections |-> selections, workflows |-> workflows,
   pagination_config |-> pagination_config, max_pages |-> max_pages, delay_ms |-> 1000]

WithItems == <<ItemsSel, TitleSel, PriceSel, DetailSel>>
NoItems == <<TitleSel, PriceSel, DetailSel>>

\* The configurations AdvancedCrawler is run with.
AdvancedConfigs ==
  { CrawlerConfiguration(WithItems, <<ClickStep, ExtractStepCfg>>, None, Some(1)),
    CrawlerConfiguration(WithItems, <<NewTabStep, HoverStep>>, None, None),
    CrawlerConfiguration(WithItems, <<ClickStep>>, Some(PagSel), Some(2)),
    CrawlerConfiguration(WithItems, <<>>, Some(PagSel), None),
    CrawlerConfiguration(WithItems, <<>>, Some(PagSelNoContent), Some(2)),
    CrawlerConfiguration(WithItems, <<>>, Some(PagSelNoContent), Some(1)),
    CrawlerConfiguration(WithItems, <<>>, Some(PagSel), Some(0)),
    CrawlerConfiguration(WithItems, <<>>, Some(PagSelEmpty), None),
    CrawlerConfiguration(NoItems, <<ClickStep>>, Some(PagSel), Some(2)),
    CrawlerConfiguration(WithItems, <<ExtractStepCfg, HoverStep>>,
                         Some(PagSelNoContent), Some(2)),
    CrawlerConfiguration(WithItems, <<ExtractStepCfg, ExtractAgainStep>>, None, Some(1)),
    CrawlerConfiguration(NoItems, <<>>, None, None) }

\* CrawlerConfig (src/app/core/crawler.py); selectors keeps the order of the dict.
\* pagination_original_content is no field of the dataclass: None stands for the
\* attribute being absent or empty.
CrawlerConfig(selectors, pagination_selector, pagination_original_content, max_pages) ==
  [base_url |-> ListURL, selectors |-> selectors,
   pagination_selector |-> pagination_selector,
   pagination_original_content |-> pagination_original_content,
   max_pages |-> max_pages, delay_ms |-> 1000]

Selector(name, selector) == [name |-> name, selector |-> selector]

SelectorsWithItems ==
  <<Selector("items", ".quote"), Selector("text", ".text"), Selector("author", ".author")>>
SelectorsNoItems == <<Selector("text", ".text")>>

\* The configurations PaginatedCrawler is run with.
PaginatedConfigs ==
  { CrawlerConfig(SelectorsWithItems, Some(".next"), None, Some(2)),
    CrawlerConfig(SelectorsWithItems, Some(".next"), Some(<<"N", "e", "x", "t">>), None),
    CrawlerConfig(SelectorsWithItems, Some(".next"), None, Some(1)),
    CrawlerConfig(SelectorsWithItems, Some(".next"), None, Some(0)),
    CrawlerConfig(SelectorsWithItems, None, None, None),
    CrawlerConfig(SelectorsNoItems, Some(""), None, Some(2)) }

\* AdvancedCrawler._get_items_selector: the first items_container selection, or None.
GetItemsSelector(selections) ==
  IF \E k \in 1..Len(selections) : selections[k].element_type = "items_container"
  THEN Some(selections[CHOOSE k \in 1..Len(selections) :
              /\ selections[k].element_type = "items_container"
              /\ \A j \in 1..(k - 1) : selections[j].element_type # "items_container"])
  ELSE None

\* AdvancedCrawler._find_selection_by_name: the first selection of that name, or None.
FindSelectionByName(selections, name) ==
  IF \E k \in 1..Len(selections) : selections[k].name = name
  THEN Some(selections[CHOOSE k \in 1..Len(selections) :
              /\ selections[k].name = name
              /\ \A j \in 1..(k - 1) : selections[j].name # name])
  ELSE None

\* ------------------------------------------------------------- extraction
\* What a field query gives: the sub-element and its value, no sub-element, or a
\* driver error in the query or the read.
FieldOutcomes == {"found", "absent", "error"}

\* The value stored for a field: the text read where the element was found, else None.
FieldValue(outcome, text) == IF outcome = "found" THEN text ELSE NULL

\* The number of queries of an outcome assignment that did not find their element.
Misses(outcome) == Cardinality({k \in DOMAIN outcome : outcome[k] # "found"})

\* QueriedSelections without the page_url test of lines 170-177: every data field
\* is queried under the item, whatever page it was authored on.
QueriedSelectionsUnscoped(selections, current_url) ==
  {k \in 1..Len(selections) : selections[k].element_type = "data_field"}

\* _extract_item_data: the selections that are queried under the item, i.e. the
\* data fields that carry no page_url or whose page_url applies to current_url.
QueriedSelections(selections, current_url) ==
  {k \in 1..Len(selections) :
     /\ selections[k].element_type = "data_field"
     /\ \/ IsNone(selections[k].page_url)
        \/ IsFieldForCurrentPage(selections[k].page_url[1], current_url)}

\* _extract_item_data: the loop over the first k selections.
RECURSIVE ItemDataUpTo(_, _, _, _)
ItemDataUpTo(k, selections, current_url, outcome) ==
  IF k = 0 THEN EmptyDict
  ELSE LET prev == ItemDataUpTo(k - 1, selections, current_url, outcome)
       IN IF k \notin QueriedSelections(selections, current_url) THEN prev
          ELSE DictUpdate(prev,
                 selections[k].name :> FieldValue(outcome[k], "item text"))

\* ExtractItemData with the try of line 179 around the whole loop: the first field
\* whose query raises ends the loop, and the fields after it get no entry.
ExtractItemDataAborts(selections, current_url, outcome) ==
  LET errors == {k \in QueriedSelections(selections, current_url) :
                   outcome[k] = "error"}
  IN IF errors = {}
     THEN ItemDataUpTo(Len(selections), selections, current_url, outcome)
     ELSE ItemDataUpTo((CHOOSE k \in errors : \A j \in errors : k <= j) - 1,
                       selections, current_url, outcome)

\* AdvancedCrawler._extract_item_data
ExtractItemData(selections, current_url, outcome) ==
  ItemDataUpTo(Len(selections), selections, current_url, outcome)

\* The extract_fields of a step that name a selection: only these are queried.
QueriedFields(selections, fields) ==
  {k \in 1..Len(fields) : ~IsNone(FindSelectionByName(selections, fields[k]))}

\* The field loop of the step handlers over the first k names of extract_fields:
\* a name without selection gets no entry, a query that finds nothing or raises
\* gives None.
RECURSIVE StepDataUpTo(_, _, _, _, _)
StepDataUpTo(k, selections, fields, outcome, text) ==
  IF k = 0 THEN EmptyDict
  ELSE LET prev == StepDataUpTo(k - 1, selections, fields, outcome, text)
       IN IF k \notin QueriedFields(selections, fields) THEN prev
          ELSE DictUpdate(prev, fields[k] :> FieldValue(outcome[k], text))

ExtractStepData(selections, fields, outcome, text) ==
  StepDataUpTo(Len(fields), selections, fields, outcome, text)

\* What a step handler hands back: None, a dict, or an exception.
NoneResult == [kind |-> "none", data |-> EmptyDict]
DictResult(d) == [kind |-> "dict", data |-> d]
RaisedResult == [kind |-> "raised", data |-> EmptyDict]

\* ------------------------------------------------------------------ state
VARIABLES
  crawler,             \* "advanced" (AdvancedCrawler) or "paginated" (PaginatedCrawler)
  config,              \* self.config
  pc,                  \* position of the run
  url,                 \* main_page.url
  open_pages,          \* number of secondary pages open in the browsing context
  faults,              \* driver calls so far that raised or found nothing
  page_number,         \* crawl_with_workflows: page_number
  navigation_history,  \* self.navigation_history
  data,                \* self.data
  page_results,        \* _extract_page_data: page_results
  total_items,         \* _extract_page_data: total_items
  i,                   \* _extract_page_data: i
  item_data,           \* _extract_page_data: item_data
  workflow_data,       \* _execute_workflows_by_index: workflow_data
  wf,                  \* _execute_workflows_by_index: steps of config.workflows finished
  original_url,        \* _handle_click_workflow_by_index: original_url
  extracted_data,      \* _handle_*_workflow_by_index: extracted_data
  step_result,         \* what the step handler handed to _execute_workflows_by_index
  current_page,        \* PaginatedCrawler.current_page
  trace,               \* observations of the run (history, read by the properties only)
  call                 \* a call of one of the helper functions, with what it returned

vars == <<crawler, config, pc, url, open_pages, faults, page_number, navigation_history,
          data, page_results, total_items, i, item_data, workflow_data, wf,
          original_url, extracted_data, step_result, current_page, trace, call>>

\* No helper function has been called on its own.
NoCall == [fn |-> "none"]

\* The observations at the start of a run.
InitTrace ==
  [step_action |-> "", step_start_url |-> ListURL, target |-> "n/a",
   click_issued |-> FALSE, back_gotos |-> <<>>, steps_run |-> 0,
   clicks |-> {}, nav_calls |-> 0, nav_result |-> "none", nav_target |-> "n/a",
   base_data |-> EmptyDict, base_outcome |-> <<>>, base_url |-> ListURL,
   pages_extracted |-> 0, items_found |-> 0, back_failed |-> FALSE,
   nav_clicked |-> FALSE, nav_unmatched |-> FALSE, nav_true |-> 0,
   return_nav |-> "none",
   nav_empty |-> FALSE, base_item |-> <<0, 0>>, page_order |-> <<>>,
   order |-> <<>>, stopped_at |-> -1, nav_ops |-> <<>>]

\* The observations at the start of a workflow step.
StepTrace(action, target) ==
  [trace EXCEPT !.step_action = action, !.step_start_url = url, !.target = target,
                !.click_issued = FALSE, !.back_gotos = <<>>, !.return_nav = "none",
                !.steps_run = trace.steps_run + 1]

\* k more driver calls leave their nominal course.
Fault(k) == faults + k <= MaxFaults /\ faults' = faults + k

Init ==
  /\ \/ crawler = "advanced" /\ config \in AdvancedConfigs
     \/ crawler = "paginated" /\ config \in PaginatedConfigs
  /\ pc = "start"
  /\ url = BlankURL
  /\ open_pages = 0
  /\ faults = 0
  /\ page_number = 1
  /\ navigation_history = <<>>
  /\ data = <<>>
  /\ page_results = <<>>
  /\ total_items = 0
  /\ i = 0
  /\ item_data = EmptyDict
  /\ workflow_data = EmptyDict
  /\ wf = 0
  /\ original_url = ListURL
  /\ extracted_data = EmptyDict
  /\ step_result = NoneResult
  /\ current_page = 1
  /\ trace = InitTrace
  /\ call = NoCall

\* ------------------------------------------------- AdvancedCrawler: the run
\* crawl_with_workflows, lines 71-76: the first navigation. An error here leaves
\* the call before the page loop is entered.
Start ==
  /\ crawler = "advanced" /\ pc = "start"
  /\ \/ /\ url' = config.base_url
        /\ pc' = "page"
        /\ UNCHANGED faults
     \/ /\ Fault(1)
        /\ url' \in {url, config.base_url}
        /\ pc' = "failed_start"
  /\ page_number' = 1
  /\ UNCHANGED <<call, crawler, config, open_pages, navigation_history, data, page_results,
                 total_items, i, item_data, workflow_data, wf, original_url,
                 extracted_data, step_result, current_page, trace>>

\* BeginPage with a missing items selector raised as an error in place of the
\* warning and the empty list of lines 115-118.
BeginPageRaises ==
  /\ crawler = "advanced" /\ pc = "page"
  /\ navigation_history' =
       Append(navigation_history, [current_url |-> url, page_number |-> page_number])
  /\ page_results' = <<>>
  /\ i' = 0
  /\ \/ /\ IsNone(GetItemsSelector(config.selections))
        /\ pc' = "raised"
        /\ UNCHANGED <<faults, total_items>>
     \/ /\ ~IsNone(GetItemsSelector(config.selections))
        /\ \E n \in 0..MaxItems : total_items' = n
        /\ pc' = "item_loop"
        /\ UNCHANGED faults
     \/ /\ ~IsNone(GetItemsSelector(config.selections))
        /\ Fault(1)
        /\ pc' = "raised"
        /\ UNCHANGED total_items
  /\ trace' = [trace EXCEPT !.pages_extracted = @ + 1, !.back_failed = FALSE,
                            !.page_order = <<>>, !.stopped_at = -1]
  /\ UNCHANGED <<call, crawler, config, url, open_pages, page_number, data, item_data,
                 workflow_data, wf, original_url, extracted_data, step_result,
                 current_page>>

\* crawl_with_workflows, lines 78-91, and _extract_page_data, lines 112-123: the
\* page is recorded in the history; without items selector the page gives no
\* result; else the items are counted.
BeginPageOn(counts) ==
  /\ crawler = "advanced" /\ pc = "page"
  /\ navigation_history' =
       Append(navigation_history, [current_url |-> url, page_number |-> page_number])
  /\ page_results' = <<>>
  /\ i' = 0
  /\ \/ /\ IsNone(GetItemsSelector(config.selections))
        /\ pc' = "page_done"
        /\ UNCHANGED <<faults, total_items>>
     \/ /\ ~IsNone(GetItemsSelector(config.selections))
        /\ \E n \in counts : total_items' = n
        /\ pc' = "item_loop"
        /\ UNCHANGED faults
     \/ /\ ~IsNone(GetItemsSelector(config.selections))
        /\ Fault(1)
        /\ pc' = "raised"
        /\ UNCHANGED total_items
  /\ trace' = [trace EXCEPT !.pages_extracted = @ + 1, !.back_failed = FALSE,
                            !.page_order = <<>>, !.stopped_at = -1]
  /\ UNCHANGED <<call, crawler, config, url, open_pages, page_number, data, item_data,
                 workflow_data, wf, original_url, extracted_data, step_result,
                 current_page>>

\* _extract_page_data on a page of the site, which shows between 0 and MaxItems
\* items.
BeginPage == BeginPageOn(0..MaxItems)

\* ItemLoop without the test of lines 134-136: with fewer than i + 1 items on the
\* page current_items[i] raises IndexError, which nothing catches.
ItemLoopUnchecked ==
  /\ crawler = "advanced" /\ pc = "item_loop"
  /\ \/ /\ i >= total_items
        /\ pc' = "page_done"
        /\ UNCHANGED <<faults, trace>>
     \/ /\ i < total_items
        /\ pc' = "extract_item"
        /\ UNCHANGED <<faults, trace>>
     \/ /\ i < total_items
        /\ Fault(1)
        /\ trace' = [trace EXCEPT !.stopped_at = i]
        /\ pc' = "raised"
     \/ /\ i < total_items
        /\ Fault(1)
        /\ pc' = "raised"
        /\ UNCHANGED trace
  /\ UNCHANGED <<call, crawler, config, url, open_pages, page_number, navigation_history,
                 data, page_results, total_items, i, item_data, workflow_data, wf,
                 original_url, extracted_data, step_result, current_page>>

\* _extract_page_data, lines 126-137: the loop head; the items are queried again
\* and the loop ends when item i is no longer there.
ItemLoop ==
  /\ crawler = "advanced" /\ pc = "item_loop"
  /\ \/ /\ i >= total_items
        /\ pc' = "page_done"
        /\ UNCHANGED <<faults, trace>>
     \/ /\ i < total_items
        /\ pc' = "extract_item"
        /\ UNCHANGED <<faults, trace>>
     \/ /\ i < total_items
        /\ Fault(1)
        /\ trace' = [trace EXCEPT !.stopped_at = i]
        /\ pc' = "page_done"
     \/ /\ i < total_items
        /\ Fault(1)
        /\ pc' = "raised"
        /\ UNCHANGED trace
  /\ UNCHANGED <<call, crawler, config, url, open_pages, page_number, navigation_history,
                 data, page_results, total_items, i, item_data, workflow_data, wf,
                 original_url, extracted_data, step_result, current_page>>

\* _extract_page_data, lines 139-144, with _extract_item_data: the base fields of
\* item i, each with its own outcome.
ExtractItem ==
  /\ crawler = "advanced" /\ pc = "extract_item"
  /\ \E outcome \in [QueriedSelections(config.selections, url) -> FieldOutcomes] :
       /\ Fault(Misses(outcome))
       /\ item_data' = ExtractItemData(config.selections, url, outcome)
       /\ trace' = [trace EXCEPT !.base_data = item_data', !.base_outcome = outcome,
                                 !.base_url = url, !.steps_run = 0,
                                 !.step_action = "",
                                 !.base_item = <<page_number, i>>]
  /\ workflow_data' = EmptyDict
  /\ wf' = 0
  /\ pc' = IF config.workflows # <<>> THEN "workflows" ELSE "append"
  /\ UNCHANGED <<call, crawler, config, url, open_pages, page_number, navigation_history,
                 data, page_results, total_items, i, original_url, extracted_data,
                 step_result, current_page>>

\* ------------------------------------------- AdvancedCrawler: workflow steps
\* The step _execute_workflows_by_index is about to run (line 230).
CurrentStep == config.workflows[wf + 1]

\* What no workflow step changes.
stepFrame == <<call, crawler, config, page_number, navigation_history, data, page_results,
               total_items, i, item_data, workflow_data, wf, current_page>>

\* ClickSetup without the check of line 286: the target that was found is clicked
\* whatever _is_element_clickable says about it.
ClickSetupUnchecked ==
  /\ crawler = "advanced" /\ pc = "workflows" /\ wf < Len(config.workflows)
  /\ CurrentStep.action = "click"
  /\ \/ /\ Fault(1)
        /\ \E t \in {"absent", "error"} : trace' = StepTrace("click", t)
        /\ step_result' = NoneResult
        /\ pc' = "step_done"
        /\ UNCHANGED original_url
     \/ \E clickable \in ClickVerdicts :
          /\ IF ~clickable
             THEN Fault(1) /\ trace' = StepTrace("click", "rejected")
             ELSE UNCHANGED faults /\ trace' = StepTrace("click", "clickable")
          /\ original_url' = url
          /\ pc' = "click_inner"
          /\ UNCHANGED step_result
  /\ UNCHANGED <<url, open_pages, extracted_data>>
  /\ UNCHANGED stepFrame

\* _handle_click_workflow_by_index, lines 270-291: the target is looked up under
\* the i-th item and checked; an absent or rejected target, or an error of the
\* lookup, ends the step with None.
ClickSetup ==
  /\ crawler = "advanced" /\ pc = "workflows" /\ wf < Len(config.workflows)
  /\ CurrentStep.action = "click"
  /\ \/ /\ Fault(1)
        /\ \E t \in {"absent", "error"} : trace' = StepTrace("click", t)
        /\ step_result' = NoneResult
        /\ pc' = "step_done"
        /\ UNCHANGED original_url
     \/ \E clickable \in ClickVerdicts :
          IF ~clickable
          THEN /\ Fault(1)
               /\ trace' = StepTrace("click", "rejected")
               /\ step_result' = NoneResult
               /\ pc' = "step_done"
               /\ UNCHANGED original_url
          ELSE /\ trace' = StepTrace("click", "clickable")
               /\ original_url' = url
               /\ pc' = "click_inner"
               /\ UNCHANGED <<faults, step_result>>
  /\ UNCHANGED <<url, open_pages, extracted_data>>
  /\ UNCHANGED stepFrame

\* The click of a workflow step is recorded with the verdict its target got.
ClickIssued ==
  [trace EXCEPT !.click_issued = TRUE,
                !.clicks = @ \cup {[by |-> "workflow", target |-> trace.target]}]

\* _handle_click_workflow_by_index, lines 293-327: the click, the wait, the settle
\* delay and the field loop on the main page. An error of the click or of the wait
\* goes to the except branch of line 335.
ClickInner ==
  /\ crawler = "advanced" /\ pc = "click_inner"
  /\ trace' = ClickIssued
  /\ \/ /\ Fault(1)
        /\ url' \in {url, DetailURL}
        /\ pc' = "click_recover"
        /\ UNCHANGED extracted_data
     \/ /\ url' \in {url, DetailURL}
        /\ \E outcome \in [QueriedFields(config.selections, CurrentStep.extract_fields)
                            -> FieldOutcomes] :
             /\ Fault(Misses(outcome))
             /\ extracted_data' = ExtractStepData(config.selections,
                                    CurrentStep.extract_fields, outcome, "page text")
        /\ pc' = "click_return"
  /\ UNCHANGED <<open_pages, original_url, step_result>>
  /\ UNCHANGED stepFrame

\* A return navigation is recorded with its outcome.
BackGoto(outcome) == [trace EXCEPT !.back_gotos = Append(@, outcome)]

\* ClickReturn with the try of line 293 ending before the return navigation: an
\* error of goto or of the wait leaves the handler as an exception.
ClickReturnPropagates ==
  /\ crawler = "advanced" /\ pc = "click_return"
  /\ \/ /\ url' = original_url
        /\ trace' = [BackGoto("ok") EXCEPT !.return_nav = "ok"]
        /\ step_result' = DictResult(extracted_data)
        /\ UNCHANGED faults
     \/ /\ Fault(1)
        /\ url' \in {url, original_url}
        /\ \E o \in {"ok", "raise"} : trace' = [BackGoto(o) EXCEPT !.return_nav = "raised"]
        /\ step_result' = RaisedResult
  /\ pc' = "step_done"
  /\ UNCHANGED <<open_pages, original_url, extracted_data>>
  /\ UNCHANGED stepFrame

\* ClickReturn handing back the fields read on the detail page although the return
\* navigation raised.
ClickReturnKeepsData ==
  /\ crawler = "advanced" /\ pc = "click_return"
  /\ \/ /\ url' = original_url
        /\ trace' = [BackGoto("ok") EXCEPT !.return_nav = "ok"]
        /\ UNCHANGED faults
     \/ /\ Fault(1)
        /\ url' \in {url, original_url}
        /\ \E o \in {"ok", "raise"} : trace' = [BackGoto(o) EXCEPT !.return_nav = "raised"]
  /\ step_result' = DictResult(extracted_data)
  /\ pc' = "step_done"
  /\ UNCHANGED <<open_pages, original_url, extracted_data>>
  /\ UNCHANGED stepFrame

\* _handle_click_workflow_by_index, lines 329-333: the return navigation after the
\* field loop; an error of goto or of the wait goes to the except branch.
ClickReturn ==
  /\ crawler = "advanced" /\ pc = "click_return"
  /\ \/ /\ url' = original_url
        /\ trace' = [BackGoto("ok") EXCEPT !.return_nav = "ok"]
        /\ step_result' = DictResult(extracted_data)
        /\ pc' = "step_done"
        /\ UNCHANGED faults
     \/ /\ Fault(1)
        /\ url' = original_url
        /\ trace' = [BackGoto("ok") EXCEPT !.return_nav = "raised"]
        /\ pc' = "click_recover"
        /\ UNCHANGED step_result
     \/ /\ Fault(1)
        /\ url' \in {url, original_url}
        /\ trace' = [BackGoto("raise") EXCEPT !.return_nav = "raised"]
        /\ pc' = "click_recover"
        /\ UNCHANGED step_result
  /\ UNCHANGED <<open_pages, original_url, extracted_data>>
  /\ UNCHANGED stepFrame

\* ClickRecover without the return navigation of line 339: the except branch only
\* returns None.
ClickRecoverNoReturn ==
  /\ crawler = "advanced" /\ pc = "click_recover"
  /\ step_result' = NoneResult
  /\ pc' = "step_done"
  /\ UNCHANGED <<url, faults, trace, open_pages, original_url, extracted_data>>
  /\ UNCHANGED stepFrame

\* _handle_click_workflow_by_index, lines 335-343: the except branch navigates
\* back once more, swallows an error of that navigation and returns None.
ClickRecover ==
  /\ crawler = "advanced" /\ pc = "click_recover"
  /\ \/ /\ url' = original_url
        /\ trace' = BackGoto("ok")
        /\ UNCHANGED faults
     \/ /\ Fault(1)
        /\ url' = original_url
        /\ trace' = BackGoto("ok")
     \/ /\ Fault(1)
        /\ url' \in {url, original_url}
        /\ trace' = [BackGoto("raise") EXCEPT !.back_failed = TRUE]
  /\ step_result' = NoneResult
  /\ pc' = "step_done"
  /\ UNCHANGED <<open_pages, original_url, extracted_data>>
  /\ UNCHANGED stepFrame

\* ExtractStep reading the fields on the item's detail page: the main page is
\* navigated there and not back.
ExtractStepNavigates ==
  /\ crawler = "advanced" /\ pc = "workflows" /\ wf < Len(config.workflows)
  /\ CurrentStep.action = "extract"
  /\ trace' = StepTrace("extract", "n/a")
  /\ \E outcome \in [QueriedFields(config.selections, CurrentStep.extract_fields)
                      -> FieldOutcomes] :
       /\ Fault(Misses(outcome))
       /\ extracted_data' = ExtractStepData(config.selections,
                              CurrentStep.extract_fields, outcome, "item text")
  /\ step_result' = DictResult(extracted_data')
  /\ url' = DetailURL
  /\ pc' = "step_done"
  /\ UNCHANGED <<open_pages, original_url>>
  /\ UNCHANGED stepFrame

\* _handle_extract_workflow_by_index, lines 351-377: the fields are queried under
\* the i-th item; no click and no navigation.
ExtractStep ==
  /\ crawler = "advanced" /\ pc = "workflows" /\ wf < Len(config.workflows)
  /\ CurrentStep.action = "extract"
  /\ trace' = StepTrace("extract", "n/a")
  /\ \E outcome \in [QueriedFields(config.selections, CurrentStep.extract_fields)
                      -> FieldOutcomes] :
       /\ Fault(Misses(outcome))
       /\ extracted_data' = ExtractStepData(config.selections,
                              CurrentStep.extract_fields, outcome, "item text")
  /\ step_result' = DictResult(extracted_data')
  /\ pc' = "step_done"
  /\ UNCHANGED <<url, open_pages, original_url>>
  /\ UNCHANGED stepFrame

\* _handle_new_tab_workflow_by_index, lines 382-412: the link and its href are
\* read and a second page is opened; a missing link or href, or an error, ends the
\* step with None.
NewTabSetup ==
  /\ crawler = "advanced" /\ pc = "workflows" /\ wf < Len(config.workflows)
  /\ CurrentStep.action = "open_new_tab"
  /\ \/ /\ Fault(1)
        /\ \E t \in {"absent", "error"} : trace' = StepTrace("open_new_tab", t)
        /\ step_result' = NoneResult
        /\ pc' = "step_done"
        /\ UNCHANGED open_pages
     \/ /\ trace' = StepTrace("open_new_tab", "found")
        /\ open_pages' = open_pages + 1
        /\ pc' = "new_tab_inner"
        /\ UNCHANGED <<faults, step_result>>
  /\ UNCHANGED <<url, original_url, extracted_data>>
  /\ UNCHANGED stepFrame

\* NewTabInner with new_page.close() at the end of the try body in place of the
\* finally clause of lines 443-444: an error of the navigation or of the load wait
\* leaves the second page open.
NewTabInnerNoFinally ==
  /\ crawler = "advanced" /\ pc = "new_tab_inner"
  /\ \/ /\ Fault(1)
        /\ step_result' = NoneResult
        /\ UNCHANGED <<extracted_data, open_pages>>
     \/ \E outcome \in [QueriedFields(config.selections, CurrentStep.extract_fields)
                         -> FieldOutcomes] :
          /\ Fault(Misses(outcome))
          /\ extracted_data' = ExtractStepData(config.selections,
                                 CurrentStep.extract_fields, outcome, "tab text")
          /\ step_result' = DictResult(extracted_data')
          /\ open_pages' = open_pages - 1
  /\ pc' = "step_done"
  /\ UNCHANGED <<url, original_url, trace>>
  /\ UNCHANGED stepFrame

\* _handle_new_tab_workflow_by_index, lines 414-444: the second page is navigated,
\* the fields are read from it, and the finally clause closes it.
NewTabInner ==
  /\ crawler = "advanced" /\ pc = "new_tab_inner"
  /\ \/ /\ Fault(1)
        /\ step_result' = NoneResult
        /\ UNCHANGED extracted_data
     \/ \E outcome \in [QueriedFields(config.selections, CurrentStep.extract_fields)
                         -> FieldOutcomes] :
          /\ Fault(Misses(outcome))
          /\ extracted_data' = ExtractStepData(config.selections,
                                 CurrentStep.extract_fields, outcome, "tab text")
          /\ step_result' = DictResult(extracted_data')
  /\ open_pages' = open_pages - 1
  /\ pc' = "step_done"
  /\ UNCHANGED <<url, original_url, trace>>
  /\ UNCHANGED stepFrame

\* UnknownStep handling an unknown action the way the extract action is handled: the
\* step's fields are queried under the item and handed back.
UnknownStepExtracts ==
  /\ crawler = "advanced" /\ pc = "workflows" /\ wf < Len(config.workflows)
  /\ CurrentStep.action \notin {"click", "extract", "open_new_tab"}
  /\ trace' = StepTrace(CurrentStep.action, "n/a")
  /\ \E outcome \in [QueriedFields(config.selections, CurrentStep.extract_fields)
                      -> FieldOutcomes] :
       /\ Fault(Misses(outcome))
       /\ extracted_data' = ExtractStepData(config.selections,
                              CurrentStep.extract_fields, outcome, "item text")
  /\ step_result' = DictResult(extracted_data')
  /\ pc' = "step_done"
  /\ UNCHANGED <<url, open_pages, original_url>>
  /\ UNCHANGED stepFrame

\* _execute_workflow_step_by_index, lines 249-251: an unknown action gives None.
UnknownStep ==
  /\ crawler = "advanced" /\ pc = "workflows" /\ wf < Len(config.workflows)
  /\ CurrentStep.action \notin {"click", "extract", "open_new_tab"}
  /\ trace' = StepTrace(CurrentStep.action, "n/a")
  /\ step_result' = NoneResult
  /\ pc' = "step_done"
  /\ UNCHANGED <<url, open_pages, faults, original_url, extracted_data>>
  /\ UNCHANGED stepFrame

\* StepDone with the merge the other way round: a field an earlier step of the item
\* gave keeps its value, a later step only adds the fields that are new.
StepDoneKeepsEarlier ==
  /\ crawler = "advanced" /\ pc = "step_done"
  /\ workflow_data' =
       IF step_result.kind = "dict" /\ step_result.data # EmptyDict
       THEN DictUpdate(step_result.data, workflow_data)
       ELSE workflow_data
  /\ wf' = wf + 1
  /\ pc' = "workflows"
  /\ UNCHANGED <<call, crawler, config, url, open_pages, faults, page_number,
                 navigation_history, data, page_results, total_items, i, item_data,
                 original_url, extracted_data, step_result, current_page, trace>>

\* StepDone with a failed step ending the loop over the steps: after a step that
\* gave None or raised, the remaining steps of the item are not run.
StepDoneBreaks ==
  /\ crawler = "advanced" /\ pc = "step_done"
  /\ workflow_data' =
       IF step_result.kind = "dict" /\ step_result.data # EmptyDict
       THEN DictUpdate(workflow_data, step_result.data)
       ELSE workflow_data
  /\ wf' = wf + 1
  /\ pc' = IF step_result.kind = "dict" THEN "workflows" ELSE "append"
  /\ UNCHANGED <<call, crawler, config, url, open_pages, faults, page_number,
                 navigation_history, data, page_results, total_items, i, item_data,
                 original_url, extracted_data, step_result, current_page, trace>>

\* _execute_workflows_by_index, lines 231-236: a non-empty dict is merged into
\* workflow_data, None and the empty dict are not, an exception is logged; the loop
\* goes on with the next step.
StepDone ==
  /\ crawler = "advanced" /\ pc = "step_done"
  /\ workflow_data' =
       IF step_result.kind = "dict" /\ step_result.data # EmptyDict
       THEN DictUpdate(workflow_data, step_result.data)
       ELSE workflow_data
  /\ wf' = wf + 1
  /\ pc' = "workflows"
  /\ UNCHANGED <<call, crawler, config, url, open_pages, faults, page_number,
                 navigation_history, data, page_results, total_items, i, item_data,
                 original_url, extracted_data, step_result, current_page, trace>>

\* _execute_workflows_by_index, line 238: all steps are done, workflow_data is
\* returned.
WorkflowsReturn ==
  /\ crawler = "advanced" /\ pc = "workflows" /\ wf = Len(config.workflows)
  /\ pc' = "append"
  /\ UNCHANGED <<call, crawler, config, url, open_pages, faults, page_number,
                 navigation_history, data, page_results, total_items, i, item_data,
                 workflow_data, wf, original_url, extracted_data, step_result,
                 current_page, trace>>

\* ExtractionResult (extraction_time is left out)
ExtractionResult(item, source_url, workflow_path) ==
  [data |-> item, source_url |-> source_url, workflow_path |-> workflow_path]

\* AppendResult with the result put at the head of the page's list in place of
\* page_results.append (line 155).
AppendResultPrepends ==
  /\ crawler = "advanced" /\ pc = "append"
  /\ item_data' =
       IF config.workflows # <<>> /\ workflow_data # EmptyDict
       THEN DictUpdate(item_data, workflow_data)
       ELSE item_data
  /\ page_results' = <<ExtractionResult(item_data', url, <<>>)>> \o page_results
  /\ trace' = [trace EXCEPT !.page_order = <<<<page_number, i>>>> \o @]
  /\ i' = i + 1
  /\ pc' = "item_loop"
  /\ UNCHANGED <<call, crawler, config, url, open_pages, faults, page_number,
                 navigation_history, data, total_items, workflow_data, wf,
                 original_url, extracted_data, step_result, current_page>>

\* AppendResult with the result tagged with the configured base_url in place of
\* self.main_page.url (line 150).
AppendResultTagsBaseUrl ==
  /\ crawler = "advanced" /\ pc = "append"
  /\ item_data' =
       IF config.workflows # <<>> /\ workflow_data # EmptyDict
       THEN DictUpdate(item_data, workflow_data)
       ELSE item_data
  /\ page_results' =
       Append(page_results, ExtractionResult(item_data', config.base_url, <<>>))
  /\ trace' = [trace EXCEPT !.page_order = Append(@, <<page_number, i>>)]
  /\ i' = i + 1
  /\ pc' = "item_loop"
  /\ UNCHANGED <<call, crawler, config, url, open_pages, faults, page_number,
                 navigation_history, data, total_items, workflow_data, wf,
                 original_url, extracted_data, step_result, current_page>>

\* _extract_page_data, lines 145-155: a non-empty workflow_data is merged into the
\* item's data and the item's result is appended.
AppendResult ==
  /\ crawler = "advanced" /\ pc = "append"
  /\ item_data' =
       IF config.workflows # <<>> /\ workflow_data # EmptyDict
       THEN DictUpdate(item_data, workflow_data)
       ELSE item_data
  /\ page_results' = Append(page_results, ExtractionResult(item_data', url, <<>>))
  /\ trace' = [trace EXCEPT !.page_order = Append(@, <<page_number, i>>)]
  /\ i' = i + 1
  /\ pc' = "item_loop"
  /\ UNCHANGED <<call, crawler, config, url, open_pages, faults, page_number,
                 navigation_history, data, total_items, workflow_data, wf,
                 original_url, extracted_data, step_result, current_page>>

\* PageDone with the bound of line 97 tested by > in place of >=: the run goes on
\* to one more page than max_pages allows.
PageDoneLate ==
  /\ crawler = "advanced" /\ pc = "page_done"
  /\ data' = data \o page_results
  /\ trace' = [trace EXCEPT !.order = @ \o trace.page_order]
  /\ pc' = IF TruthyInt(config.max_pages) /\ page_number > config.max_pages[1]
           THEN "done" ELSE "paginate"
  /\ UNCHANGED <<call, crawler, config, url, open_pages, faults, page_number,
                 navigation_history, page_results, total_items, i, item_data,
                 workflow_data, wf, original_url, extracted_data, step_result,
                 current_page>>

\* PageDone with the page bound consumed: once the bound is reached the run clears
\* max_pages in the configuration it was given.
PageDoneClearsBound ==
  /\ crawler = "advanced" /\ pc = "page_done"
  /\ data' = data \o page_results
  /\ trace' = [trace EXCEPT !.order = @ \o trace.page_order]
  /\ pc' = IF TruthyInt(config.max_pages) /\ page_number >= config.max_pages[1]
           THEN "done" ELSE "paginate"
  /\ config' = IF pc' = "done" THEN [config EXCEPT !.max_pages = None] ELSE config
  /\ UNCHANGED <<call, crawler, url, open_pages, faults, page_number,
                 navigation_history, page_results, total_items, i, item_data,
                 workflow_data, wf, original_url, extracted_data, step_result,
                 current_page>>

\* crawl_with_workflows, lines 92-99: the page's results are added to self.data and
\* the page bound is checked.
PageDone ==
  /\ crawler = "advanced" /\ pc = "page_done"
  /\ data' = data \o page_results
  /\ trace' = [trace EXCEPT !.order = @ \o trace.page_order]
  /\ pc' = IF TruthyInt(config.max_pages) /\ page_number >= config.max_pages[1]
           THEN "done" ELSE "paginate"
  /\ UNCHANGED <<call, crawler, config, url, open_pages, faults, page_number,
                 navigation_history, page_results, total_items, i, item_data,
                 workflow_data, wf, original_url, extracted_data, step_result,
                 current_page>>

\* ------------------------------------------------------------- pagination
\* What text_content() gives for a pagination candidate (None, or a string).
CandidateTexts ==
  { None, Some(<<>>), Some(<<" ">>), Some(<<"N", "e", "x", "t">>), Some(<<" ", "n", "e", "x", "t", " ", "p", "a", "g", "e">>),
    Some(<<"P", "r", "e", "v">>) }

\* The candidate lists a query on the pagination selector may return.
CandidateLists ==
  UNION {[1..n -> CandidateTexts] : n \in 0..MaxCandidates}

\* Python truthiness of an Optional[str]: None and "" are falsy.
TruthyStr(o) == o # <<>> /\ o[1] # <<>>

\* _navigate_to_next_page, lines 702-706: the candidate's text against the
\* authored text, both stripped and lower-cased.
ContentMatches(original_content, element_text) ==
  LET oc == Lower(Strip(original_content))
      et == Lower(Strip(element_text))
  IN Contains(oc, et) \/ Contains(et, oc) \/ et = oc

\* SelectedCandidate without the return of lines 711-713: when no candidate matches
\* original_content the first candidate is selected (as PaginatedCrawler does).
SelectedCandidateFallback(pagination_config, texts) ==
  IF TruthyStr(pagination_config.original_content)
  THEN LET hits == {k \in 1..Len(texts) :
                      /\ TruthyStr(texts[k])
                      /\ ContentMatches(pagination_config.original_content[1], texts[k][1])}
       IN IF hits = {} THEN 1 ELSE CHOOSE k \in hits : \A j \in hits : k <= j
  ELSE 1

\* SelectedCandidate with the loop of line 697 running on after a match (no break):
\* the last matching candidate is selected.
SelectedCandidateLast(pagination_config, texts) ==
  IF TruthyStr(pagination_config.original_content)
  THEN LET hits == {k \in 1..Len(texts) :
                      /\ TruthyStr(texts[k])
                      /\ ContentMatches(pagination_config.original_content[1], texts[k][1])}
       IN IF hits = {} THEN 0 ELSE CHOOSE k \in hits : \A j \in hits : k >= j
  ELSE 1

\* AdvancedCrawler._navigate_to_next_page, lines 691-720: the index of the selected
\* candidate of a non-empty list, 0 when none is selected.
SelectedCandidate(pagination_config, texts) ==
  IF TruthyStr(pagination_config.original_content)
  THEN LET hits == {k \in 1..Len(texts) :
                      /\ TruthyStr(texts[k])
                      /\ ContentMatches(pagination_config.original_content[1], texts[k][1])}
       IN IF hits = {} THEN 0 ELSE CHOOSE k \in hits : \A j \in hits : k <= j
  ELSE 1

\* AdvanceOps without the politeness sleep of line 733.
AdvanceOpsNoSleep ==
  <<[op |-> "click", arg |-> "selected_element"],
    [op |-> "wait_for_load_state", arg |-> "networkidle"]>>

\* The driver calls of a pagination advance, lines 731-733 (core/crawler.py:205-207):
\* the click on the selected element, the wait for networkidle, the sleep of
\* delay_ms / 1000 seconds.
AdvanceOps ==
  <<[op |-> "click", arg |-> "selected_element"],
    [op |-> "wait_for_load_state", arg |-> "networkidle"],
    [op |-> "sleep", arg |-> "delay_ms"]>>

\* The calls made when the click, or the wait after it, raised.
FailedAdvanceOps == {SubSeq(AdvanceOps, 1, n) : n \in 1..2}

\* The pagination controller has returned: its call and its result are recorded.
NavTrace(result, target) ==
  [trace EXCEPT !.nav_calls = @ + 1, !.nav_result = result, !.nav_target = target,
                !.nav_true = IF result = "true" THEN @ + 1 ELSE @,
                !.nav_clicked = FALSE, !.nav_unmatched = FALSE,
                !.nav_empty = FALSE, !.nav_ops = <<>>]

\* The click of the pagination controller is recorded with the verdict of its target.
NavClickTrace(result, clickable, ops) ==
  LET verdict == IF clickable THEN "clickable" ELSE "rejected"
  IN [trace EXCEPT !.nav_calls = @ + 1, !.nav_result = result, !.nav_target = verdict,
                   !.nav_true = IF result = "true" THEN @ + 1 ELSE @,
                   !.nav_clicked = TRUE, !.nav_unmatched = FALSE,
                   !.nav_empty = FALSE, !.nav_ops = ops,
                   !.clicks = @ \cup {[by |-> "pagination", target |-> verdict]}]

\* The candidate lists the site offers: none on its last page, none for an empty
\* selector.
OfferedLists(selector, page) ==
  IF selector = "" \/ page >= MaxSitePages THEN {<<>>} ELSE CandidateLists

\* What the page offers the controller: original_content is configured, there are
\* candidates, and no candidate with a text matches it.
NoCandidateMatches(pagination_config, texts) ==
  /\ TruthyStr(pagination_config.original_content)
  /\ texts # <<>>
  /\ \A k \in 1..Len(texts) :
       TruthyStr(texts[k]) =>
         ~ContentMatches(pagination_config.original_content[1], texts[k][1])

\* What the controller finds on the page: whether a candidate is selected, the
\* text of the selected one and the evaluator's verdict on it.
Finding(pagination_config, texts, el) ==
  IF texts = <<>> \/ SelectedCandidate(pagination_config, texts) = 0
  THEN [selected |-> FALSE, text |-> None, clickable |-> FALSE,
        unmatched |-> NoCandidateMatches(pagination_config, texts),
        empty |-> texts = <<>>]
  ELSE [selected |-> TRUE,
        text |-> texts[SelectedCandidate(pagination_config, texts)],
        clickable |-> IsElementClickable(el),
        unmatched |-> NoCandidateMatches(pagination_config, texts),
        empty |-> texts = <<>>]

\* The pagination selections of the configurations.
PaginationConfigs == {PagSel, PagSelNoContent, PagSelEmpty}

\* The findings over all candidate lists and element states, per selection.
FindingsOf ==
  [p \in PaginationConfigs |->
     {Finding(p, texts, el) : texts \in CandidateLists, el \in ElementStates}]

\* The findings the site offers on a page.
Findings(pagination_config, page) ==
  IF OfferedLists(pagination_config.selector, page) = {<<>>}
  THEN {Finding(pagination_config, <<>>, PlainElement)}
  ELSE FindingsOf[pagination_config]

\* NavigateNext without the check of lines 678-679: with no pagination_config the
\* read of its selector raises outside the try and the error leaves the run.
NavigateNextUnguarded ==
  /\ crawler = "advanced" /\ pc = "paginate"
  /\ \/ /\ IsNone(config.pagination_config)
        /\ trace' = NavTrace("raised", "n/a")
        /\ pc' = "raised"
        /\ UNCHANGED <<url, faults, page_number>>
     \/ /\ ~IsNone(config.pagination_config)
        /\ Fault(1)
        /\ trace' = NavTrace("false", "n/a")
        /\ pc' = "done"
        /\ UNCHANGED <<url, page_number>>
     \/ /\ ~IsNone(config.pagination_config)
        /\ \E f \in Findings(config.pagination_config[1], page_number) :
             \/ /\ ~f.selected
                /\ trace' = [NavTrace("false", "n/a") EXCEPT !.nav_unmatched = f.unmatched,
                                  !.nav_empty = f.empty]
                /\ pc' = "done"
                /\ UNCHANGED <<url, faults, page_number>>
             \/ /\ f.selected /\ ~f.clickable
                /\ trace' = [NavTrace("false", "rejected") EXCEPT !.nav_unmatched = f.unmatched,
                                  !.nav_empty = f.empty]
                /\ pc' = "done"
                /\ UNCHANGED <<url, faults, page_number>>
             \/ /\ f.selected /\ f.clickable /\ IsNone(f.text)
                /\ trace' = [NavTrace("false", "clickable") EXCEPT !.nav_unmatched = f.unmatched,
                                  !.nav_empty = f.empty]
                /\ pc' = "done"
                /\ UNCHANGED <<url, faults, page_number>>
             \/ /\ f.selected /\ f.clickable /\ ~IsNone(f.text)
                /\ Fault(1)
                /\ url' \in {url, PageURL(page_number + 1)}
                /\ \E ops \in FailedAdvanceOps :
                     trace' = [NavClickTrace("false", f.clickable, ops) EXCEPT !.nav_unmatched = f.unmatched,
                                  !.nav_empty = f.empty]
                /\ pc' = "done"
                /\ UNCHANGED page_number
             \/ /\ f.selected /\ f.clickable /\ ~IsNone(f.text)
                /\ url' \in {url, PageURL(page_number + 1)}
                /\ trace' = [NavClickTrace("true", f.clickable, AdvanceOps) EXCEPT !.nav_unmatched = f.unmatched,
                                  !.nav_empty = f.empty]
                /\ page_number' = page_number + 1
                /\ pc' = "page"
                /\ UNCHANGED faults
  /\ UNCHANGED <<call, crawler, config, open_pages, navigation_history, data, page_results,
                 total_items, i, item_data, workflow_data, wf, original_url,
                 extracted_data, step_result, current_page>>

\* AdvancedCrawler._navigate_to_next_page (lines 676-739) and the use of its result
\* in crawl_with_workflows (lines 101-105). In the order of the code: no pagination
\* configured; the query raises; no candidate, or none selected; the selected one
\* rejected; its text None at line 728; the click or the wait raises; the advance.
NavigateNextOn(offered) ==
  /\ crawler = "advanced" /\ pc = "paginate"
  /\ \/ /\ IsNone(config.pagination_config)
        /\ trace' = NavTrace("false", "n/a")
        /\ pc' = "done"
        /\ UNCHANGED <<url, faults, page_number>>
     \/ /\ ~IsNone(config.pagination_config)
        /\ Fault(1)
        /\ trace' = NavTrace("false", "n/a")
        /\ pc' = "done"
        /\ UNCHANGED <<url, page_number>>
     \/ /\ ~IsNone(config.pagination_config)
        /\ \E f \in offered :
             \/ /\ ~f.selected
                /\ trace' = [NavTrace("false", "n/a") EXCEPT !.nav_unmatched = f.unmatched,
                                  !.nav_empty = f.empty]
                /\ pc' = "done"
                /\ UNCHANGED <<url, faults, page_number>>
             \/ /\ f.selected /\ ~f.clickable
                /\ trace' = [NavTrace("false", "rejected") EXCEPT !.nav_unmatched = f.unmatched,
                                  !.nav_empty = f.empty]
                /\ pc' = "done"
                /\ UNCHANGED <<url, faults, page_number>>
             \/ /\ f.selected /\ f.clickable /\ IsNone(f.text)
                /\ trace' = [NavTrace("false", "clickable") EXCEPT !.nav_unmatched = f.unmatched,
                                  !.nav_empty = f.empty]
                /\ pc' = "done"
                /\ UNCHANGED <<url, faults, page_number>>
             \/ /\ f.selected /\ f.clickable /\ ~IsNone(f.text)
                /\ Fault(1)
                /\ url' \in {url, PageURL(page_number + 1)}
                /\ \E ops \in FailedAdvanceOps :
                     trace' = [NavClickTrace("false", f.clickable, ops) EXCEPT !.nav_unmatched = f.unmatched,
                                  !.nav_empty = f.empty]
                /\ pc' = "done"
                /\ UNCHANGED page_number
             \/ /\ f.selected /\ f.clickable /\ ~IsNone(f.text)
                /\ url' \in {url, PageURL(page_number + 1)}
                /\ trace' = [NavClickTrace("true", f.clickable, AdvanceOps) EXCEPT !.nav_unmatched = f.unmatched,
                                  !.nav_empty = f.empty]
                /\ page_number' = page_number + 1
                /\ pc' = "page"
                /\ UNCHANGED faults
  /\ UNCHANGED <<call, crawler, config, open_pages, navigation_history, data, page_results,
                 total_items, i, item_data, workflow_data, wf, original_url,
                 extracted_data, step_result, current_page>>

\* _navigate_to_next_page on a page of the site, which offers the controller the
\* findings of Findings.
NavigateNext ==
  NavigateNextOn(IF IsNone(config.pagination_config) THEN {}
                 ELSE Findings(config.pagination_config[1], page_number))

\* ------------------------------------------------------- PaginatedCrawler
\* What the runs of PaginatedCrawler leave alone.
paginatedFrame == <<call, crawler, config, open_pages, page_number, navigation_history,
                    total_items, i, item_data, workflow_data, wf, original_url,
                    extracted_data, step_result>>

\* Python truthiness of an Optional selector: None and "" are falsy.
TruthySelector(o) == o # <<>> /\ o[1] # ""

\* self.config.selectors.get(name)
GetSelector(selectors, name) ==
  IF \E k \in 1..Len(selectors) : selectors[k].name = name
  THEN Some(selectors[CHOOSE k \in 1..Len(selectors) : selectors[k].name = name].selector)
  ELSE None

\* The selectors extract_data_from_page queries under an item: all but "items".
FieldSelectors(selectors) == {k \in 1..Len(selectors) : selectors[k].name # "items"}

\* extract_data_from_page, lines 59-73: the field loop over the first k selectors
\* for item j.
RECURSIVE PageItemUpTo(_, _, _, _)
PageItemUpTo(k, selectors, j, outcome) ==
  IF k = 0 THEN EmptyDict
  ELSE LET prev == PageItemUpTo(k - 1, selectors, j, outcome)
       IN IF k \notin FieldSelectors(selectors) THEN prev
          ELSE DictUpdate(prev,
                 selectors[k].name :> FieldValue(outcome[<<j, k>>], "item text"))

\* extract_data_from_page, lines 58-76: the loop over the first j items; an item
\* whose dict is empty is not appended.
RECURSIVE PageDataUpTo(_, _, _)
PageDataUpTo(j, selectors, outcome) ==
  IF j = 0 THEN <<>>
  ELSE LET item == PageItemUpTo(Len(selectors), selectors, j, outcome)
           prev == PageDataUpTo(j - 1, selectors, outcome)
       IN IF item # EmptyDict THEN Append(prev, item) ELSE prev

\* PaginatedCrawler.crawl, lines 218-221: the first navigation.
PStart ==
  /\ crawler = "paginated" /\ pc = "start"
  /\ \/ /\ url' = config.base_url
        /\ pc' = "p_extract"
        /\ UNCHANGED faults
     \/ /\ Fault(1)
        /\ url' \in {url, config.base_url}
        /\ pc' = "failed_start"
  /\ UNCHANGED <<data, page_results, current_page, trace>>
  /\ UNCHANGED paginatedFrame

\* PaginatedCrawler.extract_data_from_page (lines 47-78), called at line 229.
PExtractPage ==
  /\ crawler = "paginated" /\ pc = "p_extract"
  /\ \/ /\ ~TruthySelector(GetSelector(config.selectors, "items"))
        /\ page_results' = <<>>
        /\ trace' = [trace EXCEPT !.pages_extracted = @ + 1, !.items_found = 0,
                                  !.base_outcome = <<>>]
        /\ pc' = "p_page_done"
        /\ UNCHANGED faults
     \/ /\ TruthySelector(GetSelector(config.selectors, "items"))
        /\ Fault(1)
        /\ trace' = [trace EXCEPT !.pages_extracted = @ + 1]
        /\ pc' = "raised"
        /\ UNCHANGED page_results
     \/ /\ TruthySelector(GetSelector(config.selectors, "items"))
        /\ \E n \in 0..MaxItems :
             \E outcome \in [(1..n) \X FieldSelectors(config.selectors) -> FieldOutcomes] :
               /\ Fault(Misses(outcome))
               /\ page_results' = PageDataUpTo(n, config.selectors, outcome)
               /\ trace' = [trace EXCEPT !.pages_extracted = @ + 1, !.items_found = n,
                                         !.base_outcome = outcome]
        /\ pc' = "p_page_done"
  /\ UNCHANGED <<url, data, current_page>>
  /\ UNCHANGED paginatedFrame

\* PaginatedCrawler.crawl, lines 231-238: the page's items are added to self.data
\* and the page bound is checked.
PPageDone ==
  /\ crawler = "paginated" /\ pc = "p_page_done"
  /\ data' = data \o page_results
  /\ pc' = IF TruthyInt(config.max_pages) /\ current_page >= config.max_pages[1]
           THEN "done" ELSE "p_paginate"
  /\ UNCHANGED <<url, faults, page_results, current_page, trace>>
  /\ UNCHANGED paginatedFrame

\* PaginatedCrawler.navigate_to_next_page, lines 152-194: the index of the selected
\* candidate of a non-empty list: the first whose text matches the authored text,
\* else the first of the list.
PSelectedCandidate(pagination_original_content, texts) ==
  IF TruthyStr(pagination_original_content)
  THEN LET hits == {k \in 1..Len(texts) :
                      /\ TruthyStr(texts[k])
                      /\ ContentMatches(pagination_original_content[1], texts[k][1])}
       IN IF hits = {} THEN 1 ELSE CHOOSE k \in hits : \A j \in hits : k <= j
  ELSE 1

\* What the page offers navigate_to_next_page: an authored text is configured, there
\* are candidates, and no candidate with a text matches it.
PNoCandidateMatches(pagination_original_content, texts) ==
  /\ TruthyStr(pagination_original_content)
  /\ texts # <<>>
  /\ \A k \in 1..Len(texts) :
       TruthyStr(texts[k]) =>
         ~ContentMatches(pagination_original_content[1], texts[k][1])

\* What navigate_to_next_page finds on the page.
PFinding(pagination_original_content, texts, el) ==
  IF texts = <<>>
  THEN [selected |-> FALSE, text |-> None, clickable |-> FALSE, empty |-> TRUE,
        unmatched |-> FALSE]
  ELSE [selected |-> TRUE,
        text |-> texts[PSelectedCandidate(pagination_original_content, texts)],
        clickable |-> IsElementClickable(el), empty |-> FALSE,
        unmatched |-> PNoCandidateMatches(pagination_original_content, texts)]

\* The findings over all candidate lists and element states, per authored text.
PFindingsOf ==
  [c \in {None, Some(<<"N", "e", "x", "t">>)} |->
     {PFinding(c, texts, el) : texts \in CandidateLists, el \in ElementStates}]

PFindings(pagination_original_content, page) ==
  IF page >= MaxSitePages THEN {PFinding(pagination_original_content, <<>>, PlainElement)}
  ELSE PFindingsOf[pagination_original_content]

\* The advance counted twice.
CurrentPageCountedTwice(page) == page + 2

\* PaginatedCrawler.navigate_to_next_page, line 208: self.current_page += 1.
CurrentPageAfterAdvance(page) == page + 1

\* PaginatedCrawler.navigate_to_next_page (lines 140-213) and the use of its result
\* in crawl (lines 240-242). In the order of the code: no pagination selector; the
\* query raises; no candidate; the selected one rejected; the click or the wait
\* raises; the advance, which counts current_page up.
PNavigateNext ==
  /\ crawler = "paginated" /\ pc = "p_paginate"
  /\ \/ /\ ~TruthySelector(config.pagination_selector)
        /\ trace' = NavTrace("false", "n/a")
        /\ pc' = "done"
        /\ UNCHANGED <<url, faults, current_page>>
     \/ /\ TruthySelector(config.pagination_selector)
        /\ Fault(1)
        /\ trace' = NavTrace("false", "n/a")
        /\ pc' = "done"
        /\ UNCHANGED <<url, current_page>>
     \/ /\ TruthySelector(config.pagination_selector)
        /\ \E f \in PFindings(config.pagination_original_content, current_page) :
             \/ /\ ~f.selected
                /\ trace' = [NavTrace("false", "n/a") EXCEPT !.nav_empty = f.empty,
                                  !.nav_unmatched = f.unmatched]
                /\ pc' = "done"
                /\ UNCHANGED <<url, faults, current_page>>
             \/ /\ f.selected /\ ~f.clickable
                /\ trace' = [NavTrace("false", "rejected") EXCEPT !.nav_empty = f.empty,
                                  !.nav_unmatched = f.unmatched]
                /\ pc' = "done"
                /\ UNCHANGED <<url, faults, current_page>>
             \/ /\ f.selected /\ f.clickable
                /\ Fault(1)
                /\ url' \in {url, PageURL(current_page + 1)}
                /\ \E ops \in FailedAdvanceOps :
                     trace' = [NavClickTrace("false", f.clickable, ops) EXCEPT !.nav_empty = f.empty,
                                  !.nav_unmatched = f.unmatched]
                /\ pc' = "done"
                /\ UNCHANGED current_page
             \/ /\ f.selected /\ f.clickable
                /\ url' \in {url, PageURL(current_page + 1)}
                /\ trace' = [NavClickTrace("true", f.clickable, AdvanceOps) EXCEPT !.nav_empty = f.empty,
                                  !.nav_unmatched = f.unmatched]
                /\ current_page' = CurrentPageAfterAdvance(current_page)
                /\ pc' = "p_extract"
                /\ UNCHANGED faults
  /\ UNCHANGED <<data, page_results>>
  /\ UNCHANGED paginatedFrame

\* ------------------------------------------------------------------- runs
Next ==
  \/ Start
  \/ BeginPage
  \/ ItemLoop
  \/ ExtractItem
  \/ ClickSetup
  \/ ClickInner
  \/ ClickReturn
  \/ ClickRecover
  \/ ExtractStep
  \/ NewTabSetup
  \/ NewTabInner
  \/ UnknownStep
  \/ StepDone
  \/ WorkflowsReturn
  \/ AppendResult
  \/ PageDone
  \/ NavigateNext
  \/ PStart
  \/ PExtractPage
  \/ PPageDone
  \/ PNavigateNext

Spec == Init /\ [][Next]_vars

FairSpec == Spec /\ WF_vars(Next)

\* ------------------------------------------------------------- properties
\* The URL of the listing page being processed (the last entry of the history).
PageUrl == navigation_history[Len(navigation_history)].current_url

\* The positions of a run of AdvancedCrawler at which an item of the page is being
\* processed.
ItemPositions ==
  {"item_loop", "extract_item", "workflows", "step_done", "append"}

\* The last return navigation of the step raised.
LastBackRaised ==
  trace.back_gotos # <<>> /\ trace.back_gotos[Len(trace.back_gotos)] = "raise"

\* C1 as stated: whenever a workflow step has returned, the main page is on the URL
\* it was on when the step started, and whenever an item is being processed outside
\* a step the main page is on the URL of the listing page.
C1_PositionAlwaysRestored ==
  crawler = "advanced" =>
    /\ pc = "step_done" => url = trace.step_start_url
    /\ pc \in ItemPositions => url = PageUrl

\* C1 as amended: whenever a workflow step has returned, the main page is on the URL
\* it was on when the step started unless the step's last return navigation raised;
\* and as long as no return navigation has failed on the listing page, every item of
\* it is processed on the URL of the listing page.
C1_PositionRestoredUnlessReturnFailed ==
  crawler = "advanced" =>
    /\ (pc = "step_done" /\ ~LastBackRaised) => url = trace.step_start_url
    /\ (pc \in ItemPositions /\ ~trace.back_failed) => url = PageUrl

\* C1, the case: a click step whose click or wait raised has returned, the except
\* branch navigated back, and the main page is on the URL of the step's start.
C1_Witness ==
  /\ crawler = "advanced" /\ pc = "step_done"
  /\ trace.click_issued /\ trace.back_gotos = <<"ok">>
  /\ step_result = NoneResult
  /\ extracted_data = EmptyDict
  /\ url = trace.step_start_url

\* C2: when a click step returns in whose execution the click was issued, a return
\* navigation has been attempted, and the step did not leave by an exception.
C2_ReturnAlwaysAttempted ==
  (crawler = "advanced" /\ pc = "step_done" /\ trace.click_issued) =>
    /\ trace.back_gotos # <<>>
    /\ step_result.kind # "raised"

\* C2, the case: both return navigations of a click step raised and the step
\* returned None.
C2_Witness ==
  /\ crawler = "advanced" /\ pc = "step_done"
  /\ trace.click_issued /\ trace.back_gotos = <<"raise", "raise">>
  /\ step_result = NoneResult

\* The names in the extract_fields of all configured workflow steps.
WorkflowFields ==
  UNION {{config.workflows[k].extract_fields[n] :
            n \in 1..Len(config.workflows[k].extract_fields)} :
         k \in 1..Len(config.workflows)}

\* The values an entry of data may hold: a string read from a page, or None.
FieldValues == {NULL, "item text", "page text", "tab text"}

\* C3: the data of every ExtractionResult holds one entry, a string or None, for
\* every base field that applies to the page and for every name in the
\* extract_fields of every configured workflow step, whatever the outcome of the
\* steps. Stated for the result just appended, whose base fields are trace.base_data.
C3_EveryAttemptedFieldPresent ==
  (crawler = "advanced" /\ pc = "item_loop" /\ page_results # <<>>) =>
    LET d == page_results[Len(page_results)].data
    IN /\ DOMAIN d = DOMAIN trace.base_data \cup WorkflowFields
       /\ \A f \in DOMAIN d : d[f] \in FieldValues

\* C4: with max_pages = N >= 1 both crawlers extract at most N pages and call the
\* pagination controller at most N - 1 times; a run that returns without the
\* controller ever having answered false has extracted exactly N pages.
C4_PageBound ==
  TruthyInt(config.max_pages) =>
    /\ trace.pages_extracted <= config.max_pages[1]
    /\ trace.nav_calls <= config.max_pages[1] - 1
    /\ (pc = "done" /\ trace.nav_result # "false") =>
         trace.pages_extracted = config.max_pages[1]

\* C4, the case: AdvancedCrawler with max_pages = 2 on a site whose pagination
\* control advanced has returned after two pages and one call of the controller.
C4_Witness ==
  /\ crawler = "advanced" /\ pc = "done"
  /\ config.max_pages = Some(2)
  /\ trace.pages_extracted = 2 /\ trace.nav_calls = 1 /\ trace.nav_result = "true"

\* C5: whenever max_pages is set, every run of crawl_with_workflows that has entered
\* its page loop eventually returns its result list: the page loop, the item loop
\* and the workflow loop all end, and they end in the return of line 108.
C5_EventuallyReturns ==
  (crawler = "advanced" /\ TruthyInt(config.max_pages) /\ pc = "page") ~> (pc = "done")

\* The run has ended: by the return of the result list, or by an error that left
\* the call (at the first navigation, or at a query of the items).
RunEnded == pc \in {"done", "raised", "failed_start"}

\* Every run ends (under FairSpec).
RunEnds == <>RunEnded

\* The positions of a run of AdvancedCrawler inside a workflow step handler.
StepPositions == {"click_inner", "click_return", "click_recover", "new_tab_inner"}

\* C6: no workflow step failure is fatal. While an item is processed the results of
\* the page are those of the items before it; every configured step has been run
\* when the item's result is appended; the result just appended holds the item's
\* base fields; every step that returned, whatever it gave, is followed by the next
\* step of the loop, and every item's steps by the append of exactly one result and
\* the loop head of the next item.
C6_StepFailureNotFatal ==
  /\ [](crawler = "advanced" =>
          /\ pc \in ItemPositions \cup StepPositions => Len(page_results) = i
          /\ pc = "append" => trace.steps_run = Len(config.workflows)
          /\ (pc = "item_loop" /\ page_results # <<>>) =>
               LET d == page_results[Len(page_results)].data
               IN /\ DOMAIN trace.base_data \subseteq DOMAIN d
                  /\ \A f \in DOMAIN trace.base_data \ WorkflowFields :
                       d[f] = trace.base_data[f])
  /\ [][crawler = "advanced" =>
          /\ pc = "step_done" => pc' = "workflows" /\ wf' = wf + 1
          /\ pc = "append" =>
               /\ pc' = "item_loop" /\ i' = i + 1
               /\ Len(page_results') = Len(page_results) + 1]_vars

\* C6, the case: the click step of the first item gave no fields, the extract step
\* after it ran, the item's result was appended, and so was the second item's.
C6_Witness ==
  /\ crawler = "advanced" /\ pc = "item_loop"
  /\ config.workflows = <<ClickStep, ExtractStepCfg>>
  /\ i = 2 /\ Len(page_results) = 2
  /\ "detail" \notin DOMAIN page_results[1].data
  /\ "title" \in DOMAIN page_results[1].data
  /\ "price" \in DOMAIN page_results[1].data

\* C7: in base extraction a field whose sub-element is absent or whose query raises
\* gets None, every other field of the item keeps the value read for it, and the
\* item is still part of the results: for AdvancedCrawler._extract_item_data with
\* the outcomes of the last item, for PaginatedCrawler.extract_data_from_page with
\* the outcomes of all items of the page.
C7_FieldFailureIsolated ==
  /\ crawler = "advanced" =>
       /\ \A k \in DOMAIN trace.base_outcome :
            /\ config.selections[k].name \in DOMAIN trace.base_data
            /\ trace.base_data[config.selections[k].name] =
                 (IF trace.base_outcome[k] = "found" THEN "item text" ELSE NULL)
       /\ pc \in {"workflows", "step_done", "append"} \cup StepPositions =>
            item_data = trace.base_data
       /\ (pc = "item_loop" /\ page_results # <<>>) =>
            /\ Len(page_results) = i
            /\ DOMAIN trace.base_data \subseteq
                 DOMAIN page_results[Len(page_results)].data
  /\ (crawler = "paginated" /\ pc = "p_page_done") =>
       /\ TruthySelector(GetSelector(config.selectors, "items")) =>
            Len(page_results) = trace.items_found
       /\ \A jk \in DOMAIN trace.base_outcome :
            /\ config.selectors[jk[2]].name \in DOMAIN page_results[jk[1]]
            /\ page_results[jk[1]][config.selectors[jk[2]].name] =
                 (IF trace.base_outcome[jk] = "found" THEN "item text" ELSE NULL)

\* C7, the case: the query of the title raised, the price was read, and the item's
\* result was appended with None for the title and the price's own value.
C7_Witness ==
  /\ crawler = "advanced" /\ pc = "item_loop" /\ page_results # <<>>
  /\ \E k1, k2 \in DOMAIN trace.base_outcome :
       /\ config.selections[k1].name = "title" /\ trace.base_outcome[k1] = "error"
       /\ config.selections[k2].name = "price" /\ trace.base_outcome[k2] = "found"
  /\ page_results[Len(page_results)].data["title"] = NULL
  /\ page_results[Len(page_results)].data["price"] = "item text"

\* C8: no driver error raised inside the page loop of crawl_with_workflows leaves
\* the call.
C8_NoErrorLeavesThePageLoop ==
  crawler = "advanced" => pc # "raised"

\* The configuration names no items container.
NoItemsSelector ==
  \/ crawler = "advanced" /\ IsNone(GetItemsSelector(config.selections))
  \/ crawler = "paginated" /\ ~TruthySelector(GetSelector(config.selectors, "items"))

\* The configuration asks for pagination with an empty selector.
EmptyPaginationSelector ==
  \/ /\ crawler = "advanced" /\ ~IsNone(config.pagination_config)
     /\ config.pagination_config[1].selector = ""
  \/ crawler = "paginated" /\ config.pagination_selector = Some("")

\* C9 as stated: with a configuration error the run ends before the page loop: no
\* page is extracted, the pagination controller is not called, and the run does
\* not return a result list.
C9_ConfigurationErrorStopsRun ==
  (NoItemsSelector \/ EmptyPaginationSelector) =>
    /\ trace.pages_extracted = 0
    /\ trace.nav_calls = 0
    /\ pc # "done"

\* C9 as amended: neither configuration error is detected or surfaced. Without
\* items container no error leaves the page loop and every page gives an empty
\* list, the run going on to the page bound and to pagination; with an empty
\* pagination selector the controller clicks nothing and never answers true, so
\* the run returns after its first page; a run that has returned extracted at
\* least one page.
C9_ConfigurationErrorTolerated ==
  /\ NoItemsSelector =>
       /\ pc # "raised"
       /\ data = <<>> /\ page_results = <<>>
  /\ EmptyPaginationSelector =>
       /\ trace.nav_result # "true"
       /\ \A c \in trace.clicks : c.by # "pagination"
       /\ trace.pages_extracted <= 1
       /\ (pc = "done" /\ config.max_pages # Some(1)) =>
            trace.nav_calls = 1 /\ trace.nav_result = "false"
  /\ ((NoItemsSelector \/ EmptyPaginationSelector) /\ pc = "done") =>
       trace.pages_extracted >= 1

\* C9, the case: AdvancedCrawler without items container has gone through two
\* pages, called the pagination controller in between, and returned an empty list.
C9_Witness ==
  /\ crawler = "advanced" /\ IsNone(GetItemsSelector(config.selections))
  /\ pc = "done" /\ data = <<>>
  /\ trace.pages_extracted = 2 /\ trace.nav_calls = 1 /\ trace.nav_result = "true"

\* C10: no click is issued on a target the clickability check rejected. Every click
\* was on a target found clickable; a click step whose target was absent or
\* rejected has returned None without click, without navigation and without
\* fields, the main page where it was; a pagination controller whose selected
\* candidate was rejected has answered false.
C10_NoClickOnRejected ==
  /\ \A c \in trace.clicks : c.target = "clickable"
  /\ (crawler = "advanced" /\ pc = "step_done" /\ trace.step_action = "click"
        /\ trace.target \in {"absent", "rejected"}) =>
       /\ ~trace.click_issued
       /\ trace.back_gotos = <<>>
       /\ url = trace.step_start_url
       /\ step_result = NoneResult
  /\ trace.nav_target = "rejected" => trace.nav_result = "false"

\* C10, the case: the target of a click step was rejected and so was the candidate
\* of the pagination controller; the run has returned without any click.
C10_Witness ==
  /\ crawler = "advanced" /\ pc = "done"
  /\ trace.step_action = "click" /\ trace.target = "rejected"
  /\ trace.nav_target = "rejected" /\ trace.nav_result = "false"
  /\ trace.clicks = {}

\* ------------------------------------------------------ calls of the helpers
\* The variables of a run of a crawler.
runVars == <<crawler, config, pc, url, open_pages, faults, page_number,
             navigation_history, data, page_results, total_items, i, item_data,
             workflow_data, wf, original_url, extracted_data, step_result,
             current_page, trace>>

\* No run is under way: a helper is called on its own, on a crawler as constructed.
CallInit ==
  /\ crawler = "advanced" /\ config = CrawlerConfiguration(WithItems, <<>>, None, None)
  /\ pc = "call"
  /\ url = BlankURL
  /\ open_pages = 0
  /\ faults = 0
  /\ page_number = 1
  /\ navigation_history = <<>>
  /\ data = <<>>
  /\ page_results = <<>>
  /\ total_items = 0
  /\ i = 0
  /\ item_data = EmptyDict
  /\ workflow_data = EmptyDict
  /\ wf = 0
  /\ original_url = ListURL
  /\ extracted_data = EmptyDict
  /\ step_result = NoneResult
  /\ current_page = 1
  /\ trace = InitTrace
  /\ call = NoCall

\* The values of original_content a pagination selection is authored with.
OriginalContents ==
  { None, Some(<<>>), Some(<<" ">>), Some(<<"N", "e", "x", "t">>),
    Some(<<" ", "N", "E", "X", "T", " ">>), Some(<<"n", "e", "x", "t", " ", "p", "a", "g", "e", " ", "2">>) }

\* A pagination selection authored with the given original_content.
PaginationSelection(original_content) ==
  Selection("next", ".next", "pagination", None, original_content)

\* _navigate_to_next_page, lines 719-731: the index of the candidate that is
\* clicked, 0 when the controller returns without a click. The click of line 731
\* is on selected_element.
ClickedCandidate(pagination_config, texts, el) ==
  LET f == Finding(pagination_config, texts, el)
  IN IF f.selected /\ f.clickable /\ ~IsNone(f.text)
     THEN SelectedCandidate(pagination_config, texts)
     ELSE 0

\* _navigate_to_next_page is called on a page that offers the candidates texts, the
\* selected one in the state el.
NavigateCall ==
  /\ call = NoCall
  /\ \E oc \in OriginalContents, texts \in CandidateLists \ {<<>>}, el \in ElementStates :
       call' = [fn |-> "_navigate_to_next_page", original_content |-> oc,
                texts |-> texts, el |-> el,
                selected |-> SelectedCandidate(PaginationSelection(oc), texts),
                clicked |-> ClickedCandidate(PaginationSelection(oc), texts, el)]
  /\ UNCHANGED runVars


\* The first of a set of indices, 0 for the empty set.
FirstOf(hits) == IF hits = {} THEN 0 ELSE CHOOSE k \in hits : \A j \in hits : k <= j

\* C11 as stated: with original_content configured the controller selects the first
\* candidate whose trimmed, lower-cased text equals, contains or is contained in
\* the trimmed, lower-cased original_content (none if there is none), without it
\* the first candidate; and it clicks no candidate but the selected one.
C11_SelectsFirstMatch ==
  call.fn = "_navigate_to_next_page" =>
    LET hits == {k \in 1..Len(call.texts) :
                   /\ ~IsNone(call.texts[k])
                   /\ ContentMatches(call.original_content[1], call.texts[k][1])}
    IN /\ call.selected =
            (IF TruthyStr(call.original_content) THEN FirstOf(hits) ELSE 1)
       /\ call.clicked \in {0, call.selected}

\* C11 as amended: the candidates the scan considers are those whose text content
\* is not None and not empty; among them the first whose trimmed, lower-cased text
\* equals, contains or is contained in the trimmed, lower-cased original_content is
\* selected.
C11_SelectsFirstMatchWithText ==
  call.fn = "_navigate_to_next_page" =>
    LET hits == {k \in 1..Len(call.texts) :
                   /\ TruthyStr(call.texts[k])
                   /\ ContentMatches(call.original_content[1], call.texts[k][1])}
    IN /\ call.selected =
            (IF TruthyStr(call.original_content) THEN FirstOf(hits) ELSE 1)
       /\ call.clicked \in {0, call.selected}

\* C11, the case: the first candidate has an empty text, the second reads "Next",
\* original_content is "Next": the second is selected and clicked.
C11_Witness ==
  /\ call.fn = "_navigate_to_next_page"
  /\ call.original_content = Some(<<"N", "e", "x", "t">>)
  /\ call.texts = <<Some(<<>>), Some(<<"N", "e", "x", "t">>)>>
  /\ call.selected = 2 /\ call.clicked = 2

\* C12: when original_content is configured and none of the candidates the page
\* offers matches it, _navigate_to_next_page answers false without a click, and the
\* run returns its results, those of the last page included.
C12_NoMatchIsTerminal ==
  (crawler = "advanced" /\ trace.nav_unmatched) =>
    /\ trace.nav_result = "false"
    /\ ~trace.nav_clicked
    /\ pc = "done"
    /\ Len(data) >= Len(page_results)
    /\ SubSeq(data, Len(data) - Len(page_results) + 1, Len(data)) = page_results

\* C12, the case: the first page gave results, its pagination candidates did not
\* match original_content, and the run has returned those results.
C12_Witness ==
  /\ crawler = "advanced" /\ pc = "done"
  /\ trace.nav_unmatched /\ trace.nav_calls = 1 /\ trace.nav_result = "false"
  /\ trace.clicks = {}
  /\ data # <<>> /\ data = page_results

\* No pagination selection is configured.
NoPagination ==
  \/ crawler = "advanced" /\ IsNone(config.pagination_config)
  \/ crawler = "paginated" /\ ~TruthySelector(config.pagination_selector)

\* C13: in both crawlers, when no pagination selection is configured or no element
\* matches the pagination selector, a call of the pagination controller answers
\* false, without a click and without an error, and the run returns its results.
C13_NoPaginationIsTerminal ==
  (trace.nav_calls > 0 /\ (NoPagination \/ trace.nav_empty)) =>
    /\ trace.nav_result = "false"
    /\ ~trace.nav_clicked
    /\ pc = "done"
    /\ Len(data) >= Len(page_results)
    /\ SubSeq(data, Len(data) - Len(page_results) + 1, Len(data)) = page_results

\* C13, the case: AdvancedCrawler without pagination_config has extracted its page,
\* called the controller once and returned the page's results.
C13_Witness ==
  /\ crawler = "advanced" /\ IsNone(config.pagination_config)
  /\ pc = "done" /\ trace.nav_calls = 1 /\ trace.nav_result = "false"
  /\ ~trace.nav_clicked /\ data # <<>>

\* What get_attribute('disabled') and get_attribute('aria-disabled') may give.
DisabledAttributes == {None, Some(""), Some("false")}
AriaDisabledAttributes == {None, Some("true"), Some("false"), Some("TRUE")}

\* What get_attribute('class') may give.
ClassAttributes ==
  { None, Some(<<>>), Some(<<"b", "t", "n">>), Some(<<"b", "t", "n", " ", "B", "T", "N", "-", "D", "i", "s", "a", "b", "l", "e", "d">>), Some(<<"u", "n", "d", "i", "s", "a", "b", "l", "e", "d">>), Some(<<"N", "o", "t", "-", "C", "l", "i", "c", "k", "a", "b", "l", "e">>), Some(<<"a", "c", "t", "i", "v", "e">>) }

\* The computed opacity in hundredths, None when float() cannot parse it.
Opacities == {None, Some(0), Some(5), Some(9), Some(10), Some(100)}

\* The element states the evaluator is called with.
EvaluatedStates ==
  { Element(d, a, c, v, p, o, r) :
      d \in DisabledAttributes, a \in AriaDisabledAttributes, c \in ClassAttributes,
      v \in BOOLEAN, p \in {"auto", "none"}, o \in Opacities, r \in 0..6 }

\* The driver queries of _is_element_clickable, in the order of the code.
CheckQueries ==
  << "get_attribute:disabled", "get_attribute:aria-disabled", "get_attribute:class",
     "is_visible", "evaluate:pointerEvents", "evaluate:opacity" >>

\* DriverQueries with the opacity read only after the pointer-events check passed.
DriverQueriesLazy(el) ==
  LET class_name == IF IsNone(el.class_name) THEN <<>> ELSE el.class_name[1]
  IN IF el.raises = 1 \/ ~IsNone(el.disabled) THEN SubSeq(CheckQueries, 1, 1)
     ELSE IF el.raises = 2 \/ el.aria_disabled = Some("true") THEN SubSeq(CheckQueries, 1, 2)
     ELSE IF el.raises = 3 \/ \E c \in DisabledClasses : Contains(c, Lower(class_name))
       THEN SubSeq(CheckQueries, 1, 3)
     ELSE IF el.raises = 4 \/ ~el.visible THEN SubSeq(CheckQueries, 1, 4)
     ELSE IF el.raises = 5 \/ el.pointer_events = "none" THEN SubSeq(CheckQueries, 1, 5)
     ELSE CheckQueries

\* The driver queries one evaluation issues on the element, in order: a query that
\* raises is issued and is the last one; the two computed-style evaluations are
\* issued one after the other, before either of their values is compared.
DriverQueries(el) ==
  LET class_name == IF IsNone(el.class_name) THEN <<>> ELSE el.class_name[1]
  IN IF el.raises = 1 \/ ~IsNone(el.disabled) THEN SubSeq(CheckQueries, 1, 1)
     ELSE IF el.raises = 2 \/ el.aria_disabled = Some("true") THEN SubSeq(CheckQueries, 1, 2)
     ELSE IF el.raises = 3 \/ \E c \in DisabledClasses : Contains(c, Lower(class_name))
       THEN SubSeq(CheckQueries, 1, 3)
     ELSE IF el.raises = 4 \/ ~el.visible THEN SubSeq(CheckQueries, 1, 4)
     ELSE IF el.raises = 5 THEN SubSeq(CheckQueries, 1, 5)
     ELSE CheckQueries

\* The check whose "return False" ends the evaluation (1: disabled, 2: aria-disabled,
\* 3: class, 4: visibility, 5: pointer-events, 6: opacity), 0 when the evaluation
\* ends in the except branch or with True.
TriggeredCheck(el) ==
  LET class_name == IF IsNone(el.class_name) THEN <<>> ELSE el.class_name[1]
  IN IF el.raises = 1 THEN 0
     ELSE IF ~IsNone(el.disabled) THEN 1
     ELSE IF el.raises = 2 THEN 0
     ELSE IF el.aria_disabled = Some("true") THEN 2
     ELSE IF el.raises = 3 THEN 0
     ELSE IF \E c \in DisabledClasses : Contains(c, Lower(class_name)) THEN 3
     ELSE IF el.raises = 4 THEN 0
     ELSE IF ~el.visible THEN 4
     ELSE IF el.raises \in {5, 6} THEN 0
     ELSE IF el.pointer_events = "none" THEN 5
     ELSE IF IsNone(el.opacity) THEN 0
     ELSE IF el.opacity[1] < 10 THEN 6
     ELSE 0

\* _is_element_clickable is called on an element, in either crawler.
EvaluateCall ==
  /\ call = NoCall
  /\ \E c \in {"advanced", "paginated"}, el \in EvaluatedStates :
       call' = [fn |-> "_is_element_clickable", crawler |-> c, el |-> el,
                result |-> IsElementClickable(el), queries |-> DriverQueries(el),
                triggered |-> TriggeredCheck(el)]
  /\ UNCHANGED runVars

\* The paths and the URLs the scope resolver is called with.
ScopePaths ==
  { <<>>,
    <<"/">>,
    <<"/", "l">>,
    <<"/", "l", "/">>,
    <<"/", "l", "/", "d">>,
    <<"/", "l", "/", "d", "/", "7">>,
    <<"/", "l", "x">>,
    <<"/", "m", "/", "d">>,
    <<"/", "l", "/", "/">> }

ScopeURLs == {[netloc |-> n, path |-> p] : n \in {"x.com", "y.com"}, p \in ScopePaths}

\* _is_field_for_current_page is called with two URLs.
ScopeCall ==
  /\ call = NoCall
  /\ \E f \in ScopeURLs, c \in ScopeURLs :
       call' = [fn |-> "_is_field_for_current_page", field_page_url |-> f,
                current_url |-> c, result |-> IsFieldForCurrentPage(f, c)]
  /\ UNCHANGED runVars

\* --------------------------------------------- saving and loading configurations
\* A JSON value for an Optional field: null, or the value.
JsonOpt(o) == IF IsNone(o) THEN [t |-> "null"] ELSE [t |-> "value", v |-> o[1]]
FromJsonOpt(j) == IF j.t = "null" THEN None ELSE Some(j.v)

\* dataclasses.asdict on an ElementSelection and on a WorkflowStep, as written to
\* the file by json.dump.
AsDictSelection(s) ==
  [name |-> s.name, selector |-> s.selector, element_type |-> s.element_type,
   page_url |-> JsonOpt(s.page_url), original_content |-> JsonOpt(s.original_content)]
AsDictStep(w) ==
  [step_id |-> w.step_id, action |-> w.action, target_selector |-> w.target_selector,
   extract_fields |-> w.extract_fields, wait_condition |-> w.wait_condition]

\* The persisted JSON form of a CrawlerConfiguration: asdict(config), as
\* ConfigManager.save_configuration writes it.
AsDict(c) ==
  [name |-> c.name, base_url |-> c.base_url,
   selections |-> [k \in 1..Len(c.selections) |-> AsDictSelection(c.selections[k])],
   workflows |-> [k \in 1..Len(c.workflows) |-> AsDictStep(c.workflows[k])],
   pagination_config |->
     IF IsNone(c.pagination_config) THEN [t |-> "null"]
     ELSE [t |-> "value", v |-> AsDictSelection(c.pagination_config[1])],
   max_pages |-> JsonOpt(c.max_pages), delay_ms |-> c.delay_ms]

\* ElementSelection(**sel) and WorkflowStep(**wf) on the loaded dictionaries.
ElementSelectionFromDict(d) ==
  Selection(d.name, d.selector, d.element_type, FromJsonOpt(d.page_url),
            FromJsonOpt(d.original_content))
WorkflowStepFromDict(d) ==
  Step(d.step_id, d.action, d.target_selector, d.extract_fields, d.wait_condition)

\* The pagination_config of the three loaders: the key's value is tested for
\* truthiness, and a dictionary with keys is truthy.
PaginationFromDict(d) ==
  IF d.pagination_config.t = "null" THEN None
  ELSE Some(ElementSelectionFromDict(d.pagination_config.v))

\* load_interactive_config (advanced_crawler.py, lines 885-906).
LoadInteractiveConfig(d) ==
  [name |-> d.name, base_url |-> d.base_url,
   selections |-> [k \in 1..Len(d.selections) |-> ElementSelectionFromDict(d.selections[k])],
   workflows |-> [k \in 1..Len(d.workflows) |-> WorkflowStepFromDict(d.workflows[k])],
   pagination_config |-> PaginationFromDict(d),
   max_pages |-> FromJsonOpt(d.max_pages), delay_ms |-> d.delay_ms]

\* WorkflowConfigurator.load_configuration (workflow_configurator.py, lines 181-213).
ConfiguratorLoadConfiguration(d) ==
  [name |-> d.name, base_url |-> d.base_url,
   selections |-> [k \in 1..Len(d.selections) |-> ElementSelectionFromDict(d.selections[k])],
   workflows |-> [k \in 1..Len(d.workflows) |-> WorkflowStepFromDict(d.workflows[k])],
   pagination_config |-> PaginationFromDict(d),
   max_pages |-> FromJsonOpt(d.max_pages), delay_ms |-> d.delay_ms]

\* ConfigManager.load_configuration (interactive/config_manager.py, lines 158-182):
\* max_pages and delay_ms are not passed to CrawlerConfiguration and take the
\* defaults of the dataclass.
ConfigManagerLoadConfiguration(d) ==
  [name |-> d.name, base_url |-> d.base_url,
   selections |-> [k \in 1..Len(d.selections) |-> ElementSelectionFromDict(d.selections[k])],
   workflows |-> [k \in 1..Len(d.workflows) |-> WorkflowStepFromDict(d.workflows[k])],
   pagination_config |-> PaginationFromDict(d),
   max_pages |-> None, delay_ms |-> 1000]

\* The configurations that are saved: those of the runs, named, with a delay.
SavedConfigurations ==
  {[name |-> "shop", base_url |-> c.base_url, selections |-> c.selections,
    workflows |-> c.workflows, pagination_config |-> c.pagination_config,
    max_pages |-> c.max_pages, delay_ms |-> d] :
     c \in AdvancedConfigs, d \in {0, 1000, 2000}}

Loaders == {"load_interactive_config", "WorkflowConfigurator.load_configuration",
            "ConfigManager.load_configuration"}

\* What a loader gives for a persisted form.
Load(loader, d) ==
  CASE loader = "load_interactive_config" -> LoadInteractiveConfig(d)
    [] loader = "WorkflowConfigurator.load_configuration" -> ConfiguratorLoadConfiguration(d)
    [] loader = "ConfigManager.load_configuration" -> ConfigManagerLoadConfiguration(d)

\* A configuration is saved and loaded back with one of the loaders.
LoadCall ==
  /\ call = NoCall
  /\ \E c \in SavedConfigurations, loader \in Loaders :
       call' = [fn |-> "load", loader |-> loader, saved |-> c,
                loaded |-> Load(loader, AsDict(c))]
  /\ UNCHANGED runVars

\* Between two evaluations of the resolver the crawler goes on: the main page is
\* somewhere else, on another page of the listing, after more driver faults.
CrawlerMoves ==
  /\ call.fn = "_is_field_for_current_page"
  /\ url' \in {BlankURL, ListURL, List2URL, DetailURL}
  /\ page_number' \in 1..MaxSitePages
  /\ faults' \in 0..MaxFaults
  /\ <<url', page_number', faults'>> # <<url, page_number, faults>>
  /\ UNCHANGED <<call, crawler, config, pc, open_pages, navigation_history, data,
                 page_results, total_items, i, item_data, workflow_data, wf,
                 original_url, extracted_data, step_result, current_page, trace>>

\* ScopeAgain for a resolver that reads the URL of the main page (self.main_page.url,
\* the variable url) in place of its parameter current_url.
ScopeAgainOnMainPage ==
  /\ call.fn = "_is_field_for_current_page"
  /\ call' = [fn |-> "_is_field_for_current_page, twice",
              field_page_url |-> call.field_page_url,
              current_url |-> call.current_url,
              first |-> call.result,
              second |-> IsFieldForCurrentPage(call.field_page_url, url)]
  /\ UNCHANGED runVars

\* _is_field_for_current_page is evaluated a second time with the arguments of the
\* first evaluation, in the state the crawler is in by now.
ScopeAgain ==
  /\ call.fn = "_is_field_for_current_page"
  /\ call' = [fn |-> "_is_field_for_current_page, twice",
              field_page_url |-> call.field_page_url,
              current_url |-> call.current_url,
              first |-> call.result,
              second |-> IsFieldForCurrentPage(call.field_page_url, call.current_url)]
  /\ UNCHANGED runVars

\* ------------------------------------------------ the index-scoped locator
\* An element of a listing page: its parent, its tag, and whether the container
\* selector matches it.
Nodes == [parent : {1, 2}, tag : {"div", "li"}, item : BOOLEAN]

\* The listing pages, their elements in document order (the children of the first
\* parent before those of the second).
Pages ==
  {dom \in UNION {[1..n -> Nodes] : n \in 1..MaxNodes} :
     \A j, k \in DOMAIN dom : j < k => dom[j].parent <= dom[k].parent}

\* query_selector_all(items_selector.selector): the matches in document order.
RECURSIVE MatchesUpTo(_, _)
MatchesUpTo(dom, k) ==
  IF k = 0 THEN <<>>
  ELSE IF dom[k].item THEN Append(MatchesUpTo(dom, k - 1), k)
       ELSE MatchesUpTo(dom, k - 1)
QuerySelectorAll(dom) == MatchesUpTo(dom, Len(dom))

\* current_items[i] (lines 131-138): the element item i's base fields are read from.
CurrentItem(dom, item_index) == QuerySelectorAll(dom)[item_index + 1]

\* The position :nth-of-type counts: that of the element among the children of its
\* parent that have its tag.
TypeIndex(dom, k) ==
  Cardinality({j \in 1..k : dom[j].parent = dom[k].parent /\ dom[j].tag = dom[k].tag})

\* query_selector of "(<container selector>):nth-of-type(item_index+1)" (lines 275,
\* 357, 387): the first element in document order that the container selector
\* matches and that is the (item_index+1)-th of its type under its parent; None if
\* there is none.
NthItem(dom, item_index) ==
  LET hits == {k \in 1..Len(dom) : dom[k].item /\ TypeIndex(dom, k) = item_index + 1}
  IN IF hits = {} THEN None ELSE Some(CHOOSE k \in hits : \A j \in hits : k <= j)

\* Item i of a page is located for its base extraction and for its workflow steps.
LocateCall ==
  /\ call = NoCall
  /\ \E dom \in Pages :
       \E n \in 0..(Len(QuerySelectorAll(dom)) - 1) :
         call' = [fn |-> "nth_item_selector", dom |-> dom, item_index |-> n,
                  base |-> CurrentItem(dom, n), step |-> NthItem(dom, n)]
  /\ UNCHANGED runVars

\* ------------------------------------------------- the configurations map
\* The keys load_configuration reads with config_data[...], in the order it reads
\* them; a file that lacks one of them raises KeyError.
RequiredKeys == <<"selections", "workflows", "name", "base_url">>

\* The configurations found in files: two names, with and without workflow steps.
FileConfigurations ==
  {[name |-> n, base_url |-> ListURL, selections |-> WithItems, workflows |-> w,
    pagination_config |-> Some(PagSel), max_pages |-> Some(2), delay_ms |-> 2000] :
     n \in {"shop", "cafe"}, w \in {<<>>, <<ClickStep>>}}

\* The files load_configuration is pointed to: no file, a file that is not JSON, a
\* JSON object without one of the required keys, a JSON object whose selections
\* carry a key ElementSelection does not take, and complete files.
ConfigFiles ==
  {[exists |-> FALSE, json |-> FALSE, absent |-> {}, extra_key |-> FALSE, content |-> AsDict(c)] :
     c \in {cc \in FileConfigurations : cc.name = "shop" /\ cc.workflows = <<>>}}
  \cup
  {[exists |-> TRUE, json |-> FALSE, absent |-> {}, extra_key |-> FALSE, content |-> AsDict(c)] :
     c \in {cc \in FileConfigurations : cc.name = "shop" /\ cc.workflows = <<>>}}
  \cup
  {[exists |-> TRUE, json |-> TRUE, absent |-> {RequiredKeys[k]}, extra_key |-> FALSE, content |-> AsDict(c)] :
     k \in 1..Len(RequiredKeys),
     c \in {cc \in FileConfigurations : cc.name = "shop" /\ cc.workflows = <<>>}}
  \cup
  {[exists |-> TRUE, json |-> TRUE, absent |-> {}, extra_key |-> TRUE, content |-> AsDict(c)] :
     c \in {cc \in FileConfigurations : cc.name = "shop" /\ cc.workflows = <<>>}}
  \cup
  {[exists |-> TRUE, json |-> TRUE, absent |-> {}, extra_key |-> FALSE, content |-> AsDict(c)] :
     c \in FileConfigurations}

\* WorkflowConfiguratorLoad reading the workflows with a default: a file without the
\* key "workflows" loads as a configuration without steps.
WorkflowConfiguratorLoadDefaultsWorkflows(configurations, file) ==
  IF ~file.exists \/ ~file.json \/ file.extra_key \/ file.absent \ {"workflows"} # {}
  THEN [result |-> None, configurations |-> configurations]
  ELSE LET d == IF "workflows" \in file.absent
                THEN [file.content EXCEPT !.workflows = <<>>] ELSE file.content
           cfg == ConfiguratorLoadConfiguration(d)
       IN [result |-> Some(cfg),
           configurations |-> DictUpdate(configurations, [n \in {cfg.name} |-> cfg])]

\* WorkflowConfigurator.load_configuration (workflow_configurator.py, lines 181-215)
\* on the map self.configurations: open, json.load, the selections, the workflows,
\* the configuration; an exception of any of them is caught and gives None; the
\* entry of the map is written last.
WorkflowConfiguratorLoad(configurations, file) ==
  IF ~file.exists THEN [result |-> None, configurations |-> configurations]
  ELSE IF ~file.json THEN [result |-> None, configurations |-> configurations]
  ELSE IF "selections" \in file.absent \/ file.extra_key
    THEN [result |-> None, configurations |-> configurations]
  ELSE IF "workflows" \in file.absent
    THEN [result |-> None, configurations |-> configurations]
  ELSE IF "name" \in file.absent \/ "base_url" \in file.absent
    THEN [result |-> None, configurations |-> configurations]
  ELSE LET cfg == ConfiguratorLoadConfiguration(file.content)
       IN [result |-> Some(cfg),
           configurations |-> DictUpdate(configurations, [n \in {cfg.name} |-> cfg])]

\* WorkflowConfigurator.add_workflow_to_config (lines 116-119).
AddWorkflowToConfig(configurations, config_name, workflow_steps) ==
  IF config_name \in DOMAIN configurations
  THEN [configurations EXCEPT ![config_name].workflows = @ \o workflow_steps]
  ELSE configurations

\* WorkflowConfigurator.__init__ (lines 21-24): the map starts empty.
ConfiguratorNew ==
  /\ call = NoCall
  /\ call' = [fn |-> "WorkflowConfigurator", op |-> "__init__", calls |-> 0,
              before |-> EmptyDict, configurations |-> EmptyDict, result |-> None,
              file |-> None, config_name |-> ""]
  /\ UNCHANGED runVars

\* load_configuration is called on the configurator.
ConfiguratorLoad ==
  /\ call.fn = "WorkflowConfigurator" /\ call.calls < MaxCalls
  /\ \E file \in ConfigFiles :
       LET r == WorkflowConfiguratorLoad(call.configurations, file)
       IN call' = [fn |-> "WorkflowConfigurator", op |-> "load_configuration",
                   calls |-> call.calls + 1, before |-> call.configurations,
                   configurations |-> r.configurations, result |-> r.result,
                   file |-> Some(file), config_name |-> ""]
  /\ UNCHANGED runVars

\* add_workflow_to_config is called on the configurator.
ConfiguratorAddWorkflow ==
  /\ call.fn = "WorkflowConfigurator" /\ call.calls < MaxCalls
  /\ \E config_name \in {"shop", "cafe", "nonexistent"},
        workflow_steps \in {<<ExtractStepCfg>>, <<ClickStep, HoverStep>>} :
       call' = [fn |-> "WorkflowConfigurator", op |-> "add_workflow_to_config",
                calls |-> call.calls + 1, before |-> call.configurations,
                configurations |-> AddWorkflowToConfig(call.configurations, config_name,
                                                       workflow_steps),
                result |-> None, file |-> None, config_name |-> config_name]
  /\ UNCHANGED runVars

CallNext ==
  \/ NavigateCall
  \/ EvaluateCall
  \/ ScopeCall
  \/ LoadCall
  \/ CrawlerMoves
  \/ ScopeAgain
  \/ LocateCall
  \/ ConfiguratorNew
  \/ ConfiguratorLoad
  \/ ConfiguratorAddWorkflow

CallSpec == CallInit /\ [][CallNext]_vars

\* The six disabling signals, read off the element state.
DisabledSignal(el) == ~IsNone(el.disabled)
AriaDisabledSignal(el) == el.aria_disabled = Some("true")
ClassSignal(el) ==
  /\ ~IsNone(el.class_name)
  /\ \E c \in DisabledClasses : Contains(c, Lower(el.class_name[1]))
HiddenSignal(el) == ~el.visible
PointerEventsSignal(el) == el.pointer_events = "none"
OpacitySignal(el) == ~IsNone(el.opacity) /\ el.opacity[1] < 10

\* C14: for every element state whose reads succeed and whose opacity is a number,
\* _is_element_clickable (the same in both crawlers) answers true exactly when none
\* of the six disabling signals holds.
C14_ClickableIffNoSignal ==
  (call.fn = "_is_element_clickable" /\ call.el.raises = 0 /\ ~IsNone(call.el.opacity)) =>
    (call.result <=>
       ~(\/ DisabledSignal(call.el) \/ AriaDisabledSignal(call.el)
         \/ ClassSignal(call.el) \/ HiddenSignal(call.el)
         \/ PointerEventsSignal(call.el) \/ OpacitySignal(call.el)))

\* C14, the case: a visible element whose only signal is the class attribute
\* "btn BTN-Disabled" is rejected.
C14_Witness ==
  /\ call.fn = "_is_element_clickable" /\ call.el.raises = 0
  /\ call.el.class_name = Some(<<"b", "t", "n", " ", "B", "T", "N", "-", "D", "i", "s", "a", "b", "l", "e", "d">>)
  /\ IsNone(call.el.disabled) /\ IsNone(call.el.aria_disabled)
  /\ call.el.visible /\ call.el.pointer_events = "auto" /\ call.el.opacity = Some(100)
  /\ call.result = FALSE

\* C15: the evaluator is fail-closed: when a driver call of the evaluation raises,
\* or the opacity cannot be parsed, the answer is false (a value, never an error).
C15_FailClosed ==
  (call.fn = "_is_element_clickable" /\ (call.el.raises # 0 \/ IsNone(call.el.opacity))) =>
    call.result = FALSE

\* C15, the case: no signal holds, is_visible() raises, the answer is false.
C15_Witness ==
  /\ call.fn = "_is_element_clickable" /\ call.el.raises = 4
  /\ IsNone(call.el.disabled) /\ IsNone(call.el.aria_disabled) /\ IsNone(call.el.class_name)
  /\ call.el.visible /\ call.el.pointer_events = "auto" /\ call.el.opacity = Some(100)
  /\ call.result = FALSE

\* C16: _is_field_for_current_page answers false if the hosts (netloc) differ; else
\* true if the paths are equal after stripping trailing slashes; else false if the
\* stripped field path has more '/'-separated segments than the stripped current
\* path; else true exactly when the stripped current path starts with the stripped
\* field path.
C16_ScopeRule ==
  call.fn = "_is_field_for_current_page" =>
    LET fp == RStripSlash(call.field_page_url.path)
        cp == RStripSlash(call.current_url.path)
        same_host == call.field_page_url.netloc = call.current_url.netloc
        deeper == SegmentCount(fp) > SegmentCount(cp)
    IN /\ ~same_host => call.result = FALSE
       /\ (same_host /\ fp = cp) => call.result = TRUE
       /\ (same_host /\ fp # cp /\ deeper) => call.result = FALSE
       /\ (same_host /\ fp # cp /\ ~deeper) => (call.result <=> StartsWith(cp, fp))

\* C16, the case: field path "/l" and current path "/lx" on one host: as many
\* segments, not equal, and the current path starts with the field path: true.
C16_Witness ==
  /\ call.fn = "_is_field_for_current_page"
  /\ call.field_page_url = [netloc |-> "x.com", path |-> <<"/", "l">>]
  /\ call.current_url = [netloc |-> "x.com", path |-> <<"/", "l", "x">>]
  /\ call.result = TRUE

\* A selection base extraction passes over on the page at current_url: no data
\* field, or a data field whose page_url the scope resolver rejects.
PassedOver(selection, current_url) ==
  \/ selection.element_type # "data_field"
  \/ /\ ~IsNone(selection.page_url)
     /\ ~IsFieldForCurrentPage(selection.page_url[1], current_url)

\* C17: in the base extraction of an item (made on the page trace.base_url) a
\* selection that is no data field, or whose page_url the scope resolver rejects
\* for the main page's URL, is not queried and has no entry in the item's base
\* data; every other selection is queried.
C17_OutOfScopeNotQueried ==
  crawler = "advanced" =>
    \A k \in 1..Len(config.selections) :
      IF PassedOver(config.selections[k], trace.base_url)
      THEN /\ k \notin DOMAIN trace.base_outcome
           /\ config.selections[k].name \notin DOMAIN trace.base_data
      ELSE trace.base_data # EmptyDict => k \in DOMAIN trace.base_outcome

\* C17, the case: on the listing page title and price were queried for an item,
\* the items container and the field authored on the detail page were not.
C17_Witness ==
  /\ crawler = "advanced" /\ pc \in {"workflows", "append"}
  /\ config.selections = WithItems
  /\ trace.base_url = ListURL
  /\ DOMAIN trace.base_outcome = {2, 3}
  /\ DOMAIN trace.base_data = {"title", "price"}

\* Page-then-item order of two origins <<page, index>>.
Before(a, b) == a[1] < b[1] \/ (a[1] = b[1] /\ a[2] < b[2])

\* C18: the order of a run of AdvancedCrawler. The pages entered are numbered 1, 2,
\* ... in the order they were entered; the results of the page being processed are
\* those of its items 0, 1, ... in this order and item i is the next one; a step
\* runs only for the item whose base extraction was the last one made, the step in
\* flight is the (wf+1)-th of the configuration and exactly the wf steps before it
\* have been run and have finished; trace.order gives for each result of self.data
\* the page and the index it was made for, and it ascends in page-then-item order.
C18_Ordered ==
  crawler = "advanced" =>
    /\ \A k \in 1..Len(navigation_history) : navigation_history[k].page_number = k
    /\ page_number \in {Len(navigation_history), Len(navigation_history) + 1}
    /\ Len(trace.page_order) = Len(page_results)
    /\ \A k \in 1..Len(page_results) :
         trace.page_order[k] = <<Len(navigation_history), k - 1>>
    /\ pc \in ItemPositions \cup StepPositions =>
         i = Len(page_results) /\ page_number = Len(navigation_history)
    /\ pc \in StepPositions \cup {"workflows", "step_done", "append"} =>
         trace.base_item = <<page_number, i>>
    /\ pc = "workflows" => trace.steps_run = wf /\ wf <= Len(config.workflows)
    /\ pc \in StepPositions \cup {"step_done"} =>
         /\ wf < Len(config.workflows)
         /\ trace.steps_run = wf + 1
         /\ trace.step_action = CurrentStep.action
    /\ Len(trace.order) = Len(data)
    /\ \A j, k \in 1..Len(data) : j < k => Before(trace.order[j], trace.order[k])

\* C18, the case: a run over two pages has returned three results, two of the first
\* page and one of the second, each made by two workflow steps.
C18_Witness ==
  /\ crawler = "advanced" /\ pc = "done"
  /\ Len(config.workflows) >= 2
  /\ trace.steps_run = 2
  /\ trace.order = <<<<1, 0>>, <<1, 1>>, <<2, 0>>>>

\* C19: when the items queried again at the loop head are i or fewer
\* (trace.stopped_at = i), the page's results are those of the items before i and
\* stay so, nothing is raised, and the run goes to the max_pages check and from
\* there to the end of the run or to pagination.
C19_ShrunkListEndsPage ==
  (crawler = "advanced" /\ trace.stopped_at # -1) =>
    /\ pc \in {"page_done", "paginate", "page", "done"}
    /\ trace.stopped_at < total_items
    /\ Len(page_results) = trace.stopped_at
    /\ trace.page_order = [k \in 1..trace.stopped_at |-> <<Len(navigation_history), k - 1>>]
    /\ pc # "page_done" =>
         /\ Len(data) >= Len(page_results)
         /\ SubSeq(data, Len(data) - Len(page_results) + 1, Len(data)) = page_results

\* C19, the case: of two items found on the page the second was gone when it was
\* its turn; the page gave one result and the run went on to the next page.
C19_Witness ==
  /\ crawler = "advanced" /\ pc = "page"
  /\ trace.stopped_at = 1 /\ total_items = 2
  /\ Len(page_results) = 1 /\ page_number = 2

\* C20: a second page is open only while an open_new_tab step is inside the try of
\* lines 416-444, and then exactly one; when the step has returned, with a dict or
\* with None, and at every other position of the run, no second page is open.
C20_SecondaryPageClosed ==
  crawler = "advanced" =>
    /\ open_pages \in {0, 1}
    /\ open_pages = 1 <=> pc = "new_tab_inner"
    /\ pc = "new_tab_inner" => trace.step_action = "open_new_tab"

\* C20, the case: an open_new_tab step that had opened its page has returned None
\* (the navigation or the load wait raised), and no second page is open.
C20_Witness ==
  /\ crawler = "advanced" /\ pc = "step_done"
  /\ trace.step_action = "open_new_tab" /\ trace.target = "found"
  /\ step_result = NoneResult
  /\ open_pages = 0

\* C21: while an extract or open_new_tab step runs and when it has returned,
\* whatever it returned, the main page is on the URL it was on when the step
\* started, and the step has issued no click and no navigation of the main page.
C21_MainPageUntouched ==
  (/\ crawler = "advanced"
   /\ pc \in {"new_tab_inner", "step_done"}
   /\ trace.step_action \in {"extract", "open_new_tab"}) =>
    /\ url = trace.step_start_url
    /\ ~trace.click_issued
    /\ trace.back_gotos = <<>>

\* C21, the case: an extract step has returned that started on the detail page (the
\* click step before it had not come back), and the main page is still there.
C21_Witness ==
  /\ crawler = "advanced" /\ pc = "step_done"
  /\ trace.step_action = "extract"
  /\ trace.step_start_url = DetailURL /\ url = DetailURL
  /\ step_result.kind = "dict"

\* The step ids of the first n steps of the configuration.
StepIds(n) == [k \in 1..n |-> config.workflows[k].step_id]

\* C22 as stated: the workflow_path of a result is the list of the step ids of the
\* steps that were executed for its item, in the order they were executed; here for
\* the result just appended, whose item had trace.steps_run steps executed.
C22_WorkflowPathIsExecutedSteps ==
  (crawler = "advanced" /\ pc = "item_loop" /\ page_results # <<>>) =>
    page_results[Len(page_results)].workflow_path = StepIds(trace.steps_run)

\* get_extraction_summary with unique_sources counted over the list of the results
\* in place of the set of their source_url values.
GetExtractionSummaryNoSet ==
  [total_items |-> Len(data),
   unique_sources |-> Len(data),
   workflow_usage |-> Cardinality({k \in 1..Len(data) : data[k].workflow_path # <<>>}),
   pages_visited |-> Len(navigation_history)]

\* AdvancedCrawler.get_extraction_summary, lines 815-822.
GetExtractionSummary ==
  [total_items |-> Len(data),
   unique_sources |-> Cardinality({data[k].source_url : k \in 1..Len(data)}),
   workflow_usage |-> Cardinality({k \in 1..Len(data) : data[k].workflow_path # <<>>}),
   pages_visited |-> Len(navigation_history)]

\* The number of results among the first n of self.data whose source_url is that of
\* no result before them.
RECURSIVE FirstSources(_)
FirstSources(n) ==
  IF n = 0 THEN 0
  ELSE FirstSources(n - 1) +
       (IF \E j \in 1..(n - 1) : data[j].source_url = data[n].source_url THEN 0 ELSE 1)

\* The number of results among the first n of self.data with a workflow_path that
\* is not empty.
RECURSIVE WithPath(_)
WithPath(n) ==
  IF n = 0 THEN 0
  ELSE WithPath(n - 1) + (IF Len(data[n].workflow_path) > 0 THEN 1 ELSE 0)

\* C23: when a run of AdvancedCrawler has ended, the summary gives as total_items
\* the number of results made and added to self.data, as unique_sources the number
\* of distinct source_url values among them, as workflow_usage the number of them
\* with a workflow_path that is not empty and as pages_visited the number of page
\* loop iterations begun, each of which has its entry in the navigation history,
\* numbered 1, 2, ... in order.
C23_SummaryCounts ==
  (crawler = "advanced" /\ RunEnded) =>
    /\ GetExtractionSummary.total_items = Len(trace.order)
    /\ GetExtractionSummary.unique_sources = FirstSources(Len(data))
    /\ GetExtractionSummary.workflow_usage = WithPath(Len(data))
    /\ GetExtractionSummary.pages_visited = trace.pages_extracted
    /\ \A k \in 1..Len(navigation_history) : navigation_history[k].page_number = k

\* C23, the case: a run over two pages has returned three results from two
\* different source URLs.
C23_Witness ==
  /\ crawler = "advanced" /\ pc = "done"
  /\ GetExtractionSummary.total_items = 3
  /\ GetExtractionSummary.unique_sources = 2
  /\ GetExtractionSummary.pages_visited = 2

\* ------------------------------------------------ the three-page scenario
\* The site of the scenario: ScenarioPages listing pages of ScenarioItems items.
ScenarioPages == 3
ScenarioItems == 5

\* The configuration of the scenario: max_pages = 3, pagination by the text "Next".
ScenarioConfig == CrawlerConfiguration(WithItems, <<>>, Some(PagSel), Some(ScenarioPages))

\* What the controller finds on a page of the scenario's site: one clickable
\* control reading "Next" on every page but the last, no candidate on the last.
ScenarioFindings(page) ==
  IF page < ScenarioPages
  THEN {Finding(PagSel, <<Some(<<"N", "e", "x", "t">>)>>, PlainElement)}
  ELSE {Finding(PagSel, <<>>, PlainElement)}

\* The state after AdvancedCrawler(ScenarioConfig) is constructed.
ScenarioInit ==
  /\ crawler = "advanced" /\ config = ScenarioConfig
  /\ pc = "start"
  /\ url = BlankURL
  /\ open_pages = 0
  /\ faults = 0
  /\ page_number = 1
  /\ navigation_history = <<>>
  /\ data = <<>>
  /\ page_results = <<>>
  /\ total_items = 0
  /\ i = 0
  /\ item_data = EmptyDict
  /\ workflow_data = EmptyDict
  /\ wf = 0
  /\ original_url = ListURL
  /\ extracted_data = EmptyDict
  /\ step_result = NoneResult
  /\ current_page = 1
  /\ trace = InitTrace
  /\ call = NoCall

\* The steps of the run on the scenario's site: the navigations, the item queries
\* and the pagination take their nominal course; a field of an item may be missing.
ScenarioStart == Start /\ faults' = faults
ScenarioBeginPage == BeginPageOn({ScenarioItems}) /\ faults' = faults
ScenarioItemLoop == ItemLoop /\ faults' = faults
ScenarioNavigateNext == NavigateNextOn(ScenarioFindings(page_number)) /\ faults' = faults

ScenarioNext ==
  \/ ScenarioStart
  \/ ScenarioBeginPage
  \/ ScenarioItemLoop
  \/ ExtractItem
  \/ AppendResult
  \/ PageDone
  \/ ScenarioNavigateNext

ScenarioSpec == ScenarioInit /\ [][ScenarioNext]_vars

\* C24 as stated: the run of the scenario returns 15 results of 3 pages, and the
\* last call of the pagination controller returned False for want of a candidate.
C24_ScenarioEndsByExhaustion ==
  pc = "done" =>
    /\ Len(data) = ScenarioPages * ScenarioItems
    /\ GetExtractionSummary.pages_visited = ScenarioPages
    /\ trace.nav_calls > 0
    /\ trace.nav_result = "false" /\ trace.nav_empty

\* C24, amended: the run of the scenario returns 15 results of 3 pages; the
\* controller is called once on page 1 and once on page 2 and returns True both
\* times; on page 3 the run ends at the max_pages check and the controller is not
\* called, so no call of the run returns False. No step of the run raises.
C24_ScenarioEndsByPageBound ==
  /\ pc \notin {"raised", "failed_start"}
  /\ trace.nav_calls = page_number - 1
  /\ trace.nav_calls > 0 => trace.nav_result = "true" /\ trace.nav_clicked
  /\ pc = "done" =>
       /\ Len(data) = ScenarioPages * ScenarioItems
       /\ GetExtractionSummary.pages_visited = ScenarioPages
       /\ \A k \in 1..Len(data) :
            trace.order[k] = <<((k - 1) \div ScenarioItems) + 1, (k - 1) % ScenarioItems>>
       /\ trace.nav_calls = ScenarioPages - 1

\* C24, the case: the run of the scenario has returned its 15 results.
C24_Witness ==
  /\ config = ScenarioConfig /\ pc = "done"
  /\ Len(data) = 15 /\ Len(navigation_history) = 3
  /\ trace.nav_calls = 2

\* C25 as stated: a step whose extract_fields holds a name of no selection raises
\* nothing, and when its field loop has run (the handler returned a dict) the dict
\* holds an entry for every name of extract_fields that names a selection and maps
\* every name that names none to None.
C25_UnknownFieldIsNull ==
  (/\ crawler = "advanced" /\ pc = "step_done"
   /\ trace.step_action \in {"click", "extract", "open_new_tab"}) =>
    /\ step_result.kind # "raised"
    /\ step_result.kind = "dict" =>
         \A k \in 1..Len(CurrentStep.extract_fields) :
           LET name == CurrentStep.extract_fields[k]
           IN /\ name \in DOMAIN step_result.data
              /\ IsNone(FindSelectionByName(config.selections, name)) =>
                   step_result.data[name] = NULL

\* C26 as stated: every result of the page being processed carries as source_url
\* the URL of the listing page (the URL the page had when its processing began).
C26_SourceIsListingPage ==
  (crawler = "advanced" /\ navigation_history # <<>>) =>
    \A k \in 1..Len(page_results) : page_results[k].source_url = PageUrl

\* C26 as amended: a result carries as source_url the URL of the main page at the
\* moment it is appended; as long as no return navigation of a click step has failed
\* on the listing page, this is the URL of the listing page for every result of it.
C26_SourceIsMainPageUrl ==
  (crawler = "advanced" /\ navigation_history # <<>>) =>
    /\ ~trace.back_failed =>
         \A k \in 1..Len(page_results) : page_results[k].source_url = PageUrl
    /\ (pc = "item_loop" /\ page_results # <<>>) =>
         page_results[Len(page_results)].source_url = url

\* C26, the case: on the second listing page two items have been processed, each
\* with a workflow step, and both results carry the URL of that page.
C26_Witness ==
  /\ crawler = "advanced" /\ pc = "item_loop"
  /\ config.workflows # <<>> /\ page_number = 2
  /\ Len(page_results) = 2
  /\ \A k \in 1..2 : page_results[k].source_url = List2URL
  /\ PageUrl = List2URL

\* C27 as stated: a configuration saved in its persisted form and loaded back with
\* any of the loaders is equal to the saved one in name, base_url, selections,
\* workflows, pagination_config, max_pages and delay_ms.
C27_RoundTripPreserves ==
  call.fn = "load" => call.loaded = call.saved

\* C28: when the last call of the pagination controller returned True, it made, in
\* this order and nothing else, one click on the selected candidate (which the
\* evaluator had accepted), the wait for networkidle and the sleep of delay_ms; and
\* every page after the first is extracted only after such a call: when the
\* extraction of a page is about to start or a page is being processed, as many
\* calls of the controller have been made as pages came before it, and the last of
\* them returned True.
C28_AdvanceIsClickWaitSleep ==
  /\ trace.nav_result = "true" =>
       /\ trace.nav_clicked /\ trace.nav_target = "clickable"
       /\ trace.nav_ops = <<[op |-> "click", arg |-> "selected_element"],
                            [op |-> "wait_for_load_state", arg |-> "networkidle"],
                            [op |-> "sleep", arg |-> "delay_ms"]>>
  /\ trace.nav_result # "true" => Len(trace.nav_ops) < 3
  /\ (crawler = "advanced" /\ pc \in {"page"} \cup ItemPositions \cup StepPositions) =>
       /\ trace.nav_calls = page_number - 1
       /\ page_number > 1 => trace.nav_result = "true"
  /\ (crawler = "paginated" /\ pc \in {"p_extract", "p_page_done"}) =>
       /\ trace.nav_calls = current_page - 1
       /\ current_page > 1 => trace.nav_result = "true"

\* C28, the case: the controller of PaginatedCrawler has advanced to the second
\* page, whose extraction is about to start.
C28_Witness ==
  /\ crawler = "paginated" /\ pc = "p_extract" /\ current_page = 2
  /\ trace.nav_result = "true" /\ Len(trace.nav_ops) = 3
  /\ trace.pages_extracted = 1

\* C29: no step of a run of crawl_with_workflows changes the configuration: its
\* selections, workflows, pagination_config, max_pages and delay_ms (and base_url)
\* are after the step what they were before it, whatever the driver did.
C29_ConfigurationUnchanged ==
  [][crawler = "advanced" =>
       /\ config'.selections = config.selections
       /\ config'.workflows = config.workflows
       /\ config'.pagination_config = config.pagination_config
       /\ config'.max_pages = config.max_pages
       /\ config'.delay_ms = config.delay_ms
       /\ config' = config]_vars

\* C29, the case: a run with workflow steps and pagination has ended after two
\* driver faults, with results of two pages.
C29_Witness ==
  /\ crawler = "advanced" /\ pc = "done"
  /\ config = CrawlerConfiguration(WithItems, <<ClickStep>>, Some(PagSel), Some(2))
  /\ faults = MaxFaults /\ page_number = 2 /\ Len(data) >= 2

C31_LocatorAddressesItem ==
  call.fn = "nth_item_selector" => call.step = Some(call.base)

\* C32 as stated: the clickability checks are evaluated in the stated order and stop
\* at the first one that triggers: when check k triggers, the driver queries issued
\* for the element are the first k of the six and none of a later check.
C32_NoQueryAfterTrigger ==
  (call.fn = "_is_element_clickable" /\ call.triggered > 0) =>
    call.queries = SubSeq(CheckQueries, 1, call.triggered)

\* C32, amended: the queries issued are always a prefix of the six in the stated
\* order; when one of the first four checks triggers, the prefix ends with that
\* check's query; the two computed-style values are read together, so when the
\* pointer-events check or the opacity check triggers all six queries were issued.
C32_QueriesInOrderUpToTrigger ==
  call.fn = "_is_element_clickable" =>
    /\ Len(call.queries) \in 1..6
    /\ call.queries = SubSeq(CheckQueries, 1, Len(call.queries))
    /\ call.triggered \in 1..4 => Len(call.queries) = call.triggered
    /\ call.triggered \in {5, 6} => Len(call.queries) = 6

\* C32, the case: an element whose first triggering check is pointer-events: none;
\* its opacity was read all the same.
C32_Witness ==
  /\ call.fn = "_is_element_clickable"
  /\ call.triggered = 5
  /\ call.queries = CheckQueries
  /\ ~call.result

\* C33 as stated: when PaginatedCrawler.navigate_to_next_page has an authored
\* pagination text and no candidate's normalized text equals, contains or is
\* contained in it, the call returns false and clicks nothing.
C33_PaginatedNoMatchIsLastPage ==
  (crawler = "paginated" /\ trace.nav_unmatched) =>
    (trace.nav_result = "false" /\ ~trace.nav_clicked)

\* C34: PaginatedCrawler.current_page is always 1 plus the number of
\* navigate_to_next_page calls that returned true: each call that returns true
\* counts it up by one, each call that returns false leaves it as it was.
C34_CurrentPageCountsAdvances ==
  crawler = "paginated" =>
    /\ current_page = 1 + trace.nav_true
    /\ trace.nav_true <= trace.nav_calls
    /\ (trace.nav_calls > 0 /\ trace.nav_result = "false") => pc = "done"

\* C34, the case: the first call advanced and the second, on page 2, returned false
\* for want of a candidate; current_page is 2.
C34_Witness ==
  /\ crawler = "paginated"
  /\ trace.nav_calls = 2 /\ trace.nav_true = 1
  /\ trace.nav_result = "false" /\ trace.nav_empty
  /\ current_page = 2

\* The actions _execute_workflow_step_by_index has a handler for.
HandledActions == {"click", "extract", "open_new_tab"}

\* C35: a workflow step whose action is none of click, extract, open_new_tab makes
\* no driver call (the page, the open pages and the clicks stay as they were and no
\* call fails), hands back None without an error, and adds nothing to the item's
\* fields; the loop goes on with the item's next step, all else being as it was
\* before the step.
C35_UnknownStepIsSkipped ==
  [][/\ (/\ crawler = "advanced" /\ pc = "workflows" /\ wf < Len(config.workflows)
         /\ config.workflows[wf + 1].action \notin HandledActions)
          => /\ step_result' = NoneResult
             /\ pc' = "step_done"
             /\ url' = url /\ open_pages' = open_pages /\ faults' = faults
             /\ trace'.clicks = trace.clicks /\ ~trace'.click_issued
             /\ trace'.back_gotos = <<>>
             /\ workflow_data' = workflow_data /\ item_data' = item_data
             /\ data' = data /\ page_results' = page_results
             /\ i' = i /\ wf' = wf
     /\ (/\ crawler = "advanced" /\ pc = "step_done"
         /\ trace.step_action \notin HandledActions)
          => /\ pc' = "workflows" /\ wf' = wf + 1
             /\ workflow_data' = workflow_data /\ item_data' = item_data
             /\ data' = data /\ page_results' = page_results
             /\ url' = url /\ open_pages' = open_pages /\ faults' = faults
             /\ i' = i]_vars

\* C35, the case: the second item of a page has run an extract step that gave
\* fields and then a hover step; the fields of the extract step are all it has.
C35_Witness ==
  /\ crawler = "advanced" /\ pc = "append"
  /\ trace.step_action = "hover" /\ trace.steps_run = 2
  /\ i = 1 /\ Len(page_results) = 1
  /\ workflow_data # EmptyDict
  /\ step_result = NoneResult

\* What makes a load fail: no file, no JSON, a required key absent, or a selection
\* ElementSelection cannot be built from.
LoadFails(file) ==
  \/ ~file.exists \/ ~file.json \/ file.extra_key
  \/ \E k \in 1..Len(RequiredKeys) : RequiredKeys[k] \in file.absent

C37_LaterValueReplaces ==
  [][/\ (crawler = "advanced" /\ pc = "step_done") =>
          /\ item_data' = item_data
          /\ IF step_result.kind = "dict"
             THEN /\ DOMAIN workflow_data' = DOMAIN workflow_data \cup DOMAIN step_result.data
                  /\ \A n \in DOMAIN step_result.data :
                       workflow_data'[n] = step_result.data[n]
                  /\ \A n \in DOMAIN workflow_data \ DOMAIN step_result.data :
                       workflow_data'[n] = workflow_data[n]
             ELSE workflow_data' = workflow_data
     /\ (crawler = "advanced" /\ pc = "append") =>
          /\ Len(page_results') = Len(page_results) + 1
          /\ page_results'[Len(page_results')].data = item_data'
          /\ DOMAIN item_data' = DOMAIN item_data \cup DOMAIN workflow_data
          /\ \A n \in DOMAIN workflow_data : item_data'[n] = workflow_data[n]
          /\ \A n \in DOMAIN item_data \ DOMAIN workflow_data :
               item_data'[n] = item_data[n]]_vars

\* C37, the case: the base extraction and the first extract step read the title
\* (the one call that failed is the second step's), the second extract step found
\* no element and gave null, and the item's result carries the null; the price of
\* the base extraction is still there.
C37_Witness ==
  /\ crawler = "advanced" /\ pc = "item_loop"
  /\ config.workflows = <<ExtractStepCfg, ExtractAgainStep>>
  /\ page_results # <<>>
  /\ trace.base_data["title"] # NULL
  /\ trace.steps_run = 2 /\ faults = 1
  /\ step_result = DictResult("title" :> NULL)
  /\ page_results[Len(page_results)].data["title"] = NULL
  /\ page_results[Len(page_results)].data["price"] = trace.base_data["price"]

\* C38: a click step hands back fields only when the return navigation that follows
\* the extraction succeeded. When that navigation (the goto or its wait) raised, a
\* second return navigation was attempted, the step handed back None, and the
\* values read on the detail page are in none of the item's fields.
C38_FieldsOnlyAfterReturn ==
  (crawler = "advanced" /\ trace.step_action = "click"
     /\ pc \in {"step_done", "workflows", "append"}) =>
    /\ step_result.kind = "dict" =>
         /\ trace.return_nav = "ok"
         /\ trace.back_gotos = <<"ok">>
    /\ trace.return_nav = "raised" =>
         /\ step_result = NoneResult
         /\ Len(trace.back_gotos) = 2
         /\ (trace.steps_run = 1 => workflow_data = EmptyDict)
         /\ \A n \in DOMAIN workflow_data : workflow_data[n] # "page text"
    /\ (trace.steps_run = 1 /\ pc # "step_done" /\ workflow_data # EmptyDict) =>
         (trace.return_nav = "ok" /\ url = original_url)

\* C38, the case: the click led to the detail page and the field was read there,
\* the goto back raised, the second goto went through; the step has given None and
\* the item has no field of the step.
C38_Witness ==
  /\ crawler = "advanced" /\ pc = "append" /\ trace.step_action = "click"
  /\ config.workflows = <<ClickStep>>
  /\ trace.return_nav = "raised"
  /\ trace.back_gotos = <<"raise", "ok">>
  /\ "detail" \in DOMAIN extracted_data /\ extracted_data["detail"] = "page text"
  /\ step_result = NoneResult
  /\ workflow_data = EmptyDict
  /\ url = original_url

\* C39: with max_pages 0, as with max_pages unset, the page bound never ends the
\* crawl of either crawler: a run that has returned has processed at least one page,
\* has asked the pagination controller after every page it processed, and the last
\* answer of the controller was false.
C39_ZeroIsUnbounded ==
  (pc = "done" /\ config.max_pages \in {None, Some(0)}) =>
    /\ trace.pages_extracted >= 1
    /\ trace.nav_calls = trace.pages_extracted
    /\ trace.nav_true = trace.nav_calls - 1
    /\ trace.nav_result = "false"

\* C39, the case: a crawl with max_pages 0 has processed two pages and returned
\* after the controller's second answer, false.
C39_Witness ==
  /\ pc = "done" /\ config.max_pages = Some(0)
  /\ trace.pages_extracted = 2 /\ trace.nav_calls = 2
  /\ trace.nav_result = "false"
  /\ data # <<>>
====
